---- MODULE Spec2Model ----
(***************************************************************************)
(* A model of the PythonAssetStore: the identity registry, the permission  *)
(* record, the asset record with its update strategies, and the asset      *)
(* store (directory tree, id allocator, cache and storage backend).        *)
(*                                                                         *)
(* Python dictionaries are modelled as TLA+ functions whose domain is the  *)
(* set of keys present.  A credential key "r:alice" is the pair            *)
(* <<"r", "alice">>.  Python's None is the string None where a name is     *)
(* expected and a record with null = TRUE where an object is expected.     *)
(***************************************************************************)
EXTENDS Integers, Sequences, FiniteSets, TLC

VARIABLES
    entities,           \* UserRegistry.entities: name -> Entity
    perm,               \* a UnixPermissions record operated on directly
    objs,               \* the Python objects alive: handle -> object
    asset_tree,         \* AssetStore.asset_tree
    next_asset_id,      \* AssetStore.next_asset_id
    asset_by_id_cache,  \* AssetStore.asset_by_id_cache: id -> handle of the asset
    storage,            \* the files of the AssetFileStorage
    issued,             \* history: the ids handed out by store(), in order
    clones,             \* history: the (original, clone) pairs made by clone()
    executed,           \* history: the executions of actions, with their arguments
    steps,              \* operations performed so far
    variants,           \* DispatchedNamespace._variants of one method, in order
    threads,            \* the threads inside a call: their position and locals
    res                 \* observation of the last operation performed

vars == <<entities, perm, objs, asset_tree, next_asset_id, asset_by_id_cache, storage,
          issued, clones, executed, steps, variants, threads, res>>

\* the variables of the asset store
storeVars == <<objs, asset_tree, next_asset_id, asset_by_id_cache, storage, issued,
               clones, executed, steps>>

----------------------------------------------------------------------------
(* Python values *)

None == "None"

EmptyDict == <<>>

\* dict.get(key, default)
DictGet(d, k, default) == IF k \in DOMAIN d THEN d[k] ELSE default

\* dict.update(other): other's entries win
DictUpdate(d, other) ==
    [k \in DOMAIN d \cup DOMAIN other |-> IF k \in DOMAIN other THEN other[k] ELSE d[k]]

\* d[k] = v
DictSet(d, k, v) == [x \in DOMAIN d \cup {k} |-> IF x = k THEN v ELSE d[x]]

\* f"{right}:{name}"
Key(right, name) == <<right, name>>

Rights == {"r", "w", "x"}

----------------------------------------------------------------------------
(* lib/layered_dict.py and lib/store/user_registry.py *)

RECURSIVE MergeLayers(_, _, _)
\* LayeredDict.update_merged_layers: the layers are merged last to first, so an
\* earlier layer overrides a later one, and the current layer overrides them all.
\* A layer is another entity's LayeredDict, read through its merged view.
MergeLayers(reg, layers, i) ==
    IF i = 0 THEN EmptyDict
    ELSE DictUpdate(MergeLayers(reg, layers, i - 1),
                    reg[layers[Len(layers) + 1 - i]].credentials)

UpdateMergedLayers(reg, e) ==
    DictUpdate(MergeLayers(reg, e.layers, Len(e.layers)), e.current)

\* Entity.__init__ followed by Entity.init_credentials (no bases given)
NewEntity(name) ==
    LET core == [k \in {Key(r, name) : r \in Rights} |-> TRUE]
    IN  [name |-> name, current |-> core, layers |-> <<>>,
         credentials |-> core, inherits |-> <<>>]

\* UserRegistry.__init__ without entities: only the 'all' entity exists
EmptyRegistry == [n \in {"*"} |-> NewEntity("*")]

\* Entity.add_layer, reached through UserRegistry.add_layer_to_entity
AddLayerToEntity(reg, name, layer_name) ==
    IF name \notin DOMAIN reg \/ layer_name \notin DOMAIN reg THEN reg
    ELSE LET e  == reg[name]
             e1 == [e EXCEPT !.layers = Append(@, layer_name),
                             !.inherits = Append(@, layer_name)]
         IN  [reg EXCEPT ![name] = [e1 EXCEPT !.credentials = UpdateMergedLayers(reg, e1)]]

\* UserRegistry.make_entity for a name that matches USERNAME_PATTERN
MakeEntity(reg, name) ==
    IF name \in DOMAIN reg THEN reg
    ELSE AddLayerToEntity(DictSet(reg, name, NewEntity(name)), name, "*")

\* Entity.set_credential through grant_right / revoke_right:
\* LayeredDict.__setitem__ writes the current layer and the merged view of this
\* entity only.
SetCredential(reg, name, right, value) ==
    IF name \notin DOMAIN reg THEN reg
    ELSE [reg EXCEPT ![name] =
            [@ EXCEPT !.current = DictSet(@, Key(right, name), value),
                      !.credentials = DictSet(@, Key(right, name), value)]]

\* UserRegistry.has_right -> Entity.has_credential
HasRight(reg, name, right) ==
    IF name \notin DOMAIN reg THEN FALSE
    ELSE DictGet(reg[name].credentials, Key(right, name), FALSE)

IsKnownEntity(reg, name) == name \in DOMAIN reg

\* a lookup that stops at the direct bases (Entity.inherits_directly_from)
InheritsDirectlyFrom(reg, name, other) ==
    \E i \in 1..Len(reg[name].inherits) : reg[name].inherits[i] = other

RECURSIVE InheritsFrom(_, _, _)
\* Entity.inherits_from: a direct base, or a base of a known base
InheritsFrom(reg, name, other) ==
    LET bases == reg[name].inherits
    IN  \/ \E i \in 1..Len(bases) : bases[i] = other
        \/ \E i \in 1..Len(bases) :
              /\ bases[i] \in DOMAIN reg
              /\ InheritsFrom(reg, bases[i], other)

----------------------------------------------------------------------------
(* lib/store/unix_permissions.py *)

\* A mode argument: an int, an octal string (its digits), or None
IntMode(n) == [kind |-> "int", value |-> n]
StrMode(digits) == [kind |-> "str", digits |-> digits]
NoMode == [kind |-> "none"]

RECURSIVE ParseOctal(_, _)
\* int(mode, 8) on a string of octal digits, of which the first n are read
ParseOctal(digits, n) ==
    IF n = 0 THEN 0 ELSE 8 * ParseOctal(digits, n - 1) + digits[n]

\* the integer chmod works on
ModeValue(mode) ==
    IF mode.kind = "str" THEN ParseOctal(mode.digits, Len(mode.digits)) ELSE mode.value

\* Python truthiness of a mode argument (`if mode:`): None, 0 and '' are falsy
ModeTruthy(mode) ==
    CASE mode.kind = "none" -> FALSE
      [] mode.kind = "int"  -> mode.value # 0
      [] mode.kind = "str"  -> Len(mode.digits) > 0

\* a decoder with the write and execute masks exchanged
DecodeIntPermissionsSwapped(oct_value) ==
    [r |-> (oct_value \div 4) % 2 = 1,
     w |-> oct_value % 2 = 1,
     x |-> (oct_value \div 2) % 2 = 1]

\* UnixPermissions._decode_int_permissions: (read, write, execute)
DecodeIntPermissions(oct_value) ==
    [r |-> (oct_value \div 4) % 2 = 1,
     w |-> (oct_value \div 2) % 2 = 1,
     x |-> oct_value % 2 = 1]

\* _set_user_permissions / _set_group_permissions / the three "*" assignments
SetTriple(permissions, name, rwx) ==
    DictUpdate(permissions, [k \in {Key(r, name) : r \in Rights} |-> rwx[k[1]]])

\* UnixPermissions.chmod with an int or octal-string mode
Chmod(p, mode) ==
    LET m             == ModeValue(mode)
        special_digit == (m \div 512) % 8
        user_digit    == (m \div 64) % 8
        group_digit   == (m \div 8) % 8
        others_digit  == m % 8
        st            == DecodeIntPermissions(special_digit)
        p1 == SetTriple(p.permissions, p.user_name, DecodeIntPermissions(user_digit))
        p2 == IF p.group_name # None
              THEN SetTriple(p1, p.group_name, DecodeIntPermissions(group_digit))
              ELSE p1
        p3 == SetTriple(p2, "*", DecodeIntPermissions(others_digit))
        p4 == IF special_digit # 0
              THEN DictSet(DictSet(p3, Key("s", "*"), st.r), Key("t", "*"), st.x)
              ELSE p3
    IN  [p EXCEPT !.permissions = p4]

\* UnixPermissions.__init__
UnixPermissions(user, group, mode) ==
    LET blank == [null |-> FALSE, user_name |-> user, group_name |-> group,
                  permissions |-> EmptyDict]
        allow == [r |-> TRUE, w |-> TRUE, x |-> TRUE]
        u     == SetTriple(EmptyDict, user, allow)
    IN  IF mode.kind # "none" THEN Chmod(blank, mode)
        ELSE [blank EXCEPT !.permissions =
                IF group # None THEN SetTriple(u, group, allow) ELSE u]

\* a missing permissions object (Python None)
NoPermissions == [null |-> TRUE]

\* UnixPermissions.set_permission
SetPermission(p, right, entity, value) ==
    [p EXCEPT !.permissions = DictSet(@, Key(right, entity), value)]

\* UnixPermissions.is_right_granted
IsRightGranted(p, reg, entity_name, right) ==
    IF entity_name \notin DOMAIN reg THEN FALSE
    ELSE \/ /\ entity_name = p.user_name
            /\ DictGet(p.permissions, Key(right, p.user_name), FALSE)
            /\ HasRight(reg, p.user_name, right)
         \/ /\ DictGet(p.permissions, Key(right, p.group_name), FALSE)
            /\ InheritsFrom(reg, entity_name, p.group_name)
            /\ HasRight(reg, p.group_name, right)
         \/ /\ HasRight(reg, "*", right)
            /\ DictGet(p.permissions, Key(right, "*"), FALSE)

----------------------------------------------------------------------------
(* lib/store/update_context.py *)

\* the identity an UpdateContext answers with: the top (user, group) frame
Context(user, group) == [user |-> user, group |-> group]

\* UpdateContext.permission_granted
PermissionGranted(reg, ctx, node_permissions, requested_right) ==
    IsRightGranted(node_permissions, reg, ctx.user, requested_right)

----------------------------------------------------------------------------
(* lib/store/asset_store.py: the directory tree                            *)
(*                                                                         *)
(* The nested dictionaries are one function from paths to entries: the     *)
(* entry at path p is a directory, an asset id or an ActiveAsset, and the  *)
(* permissions a directory holds under its key '' are the entry at         *)
(* Append(p, "").  The children of p are the paths one longer than p that  *)
(* start with p.                                                           *)

DirNode == [kind |-> "dir"]
PermNode(p) == [kind |-> "perm", perm |-> p]
IdNode(id) == [kind |-> "id", id |-> id]
ActiveNode(id, permissions) == [kind |-> "active", id |-> id, perm |-> permissions]

\* a value about to be assigned to a key: its entries, relative to the key
IdValue(id) == [q \in {<<>>} |-> IdNode(id)]
ActiveValue(id, permissions) == [q \in {<<>>} |-> ActiveNode(id, permissions)]
DirValue(permissions) ==
    IF permissions.null THEN [q \in {<<>>} |-> DirNode]
    ELSE [q \in {<<>>, <<"">>} |-> IF q = <<>> THEN DirNode ELSE PermNode(permissions)]

IsPrefix(p, q) == Len(p) <= Len(q) /\ SubSeq(q, 1, Len(p)) = p

\* node[key] = value, where node[key] is the entry at path p: whatever was
\* below p is dropped with the old value
AssignEntry(tree, p, value) ==
    [q \in {x \in DOMAIN tree : ~IsPrefix(p, x)} \cup {p \o r : r \in DOMAIN value} |->
        IF IsPrefix(p, q) THEN value[SubSeq(q, Len(p) + 1, Len(q))] ELSE tree[q]]

\* AssetStore.default_root_permissions
DefaultRootPermissions == UnixPermissions("root", "system", IntMode(509))

\* AssetStore.empty_root
EmptyRoot == DirValue(DefaultRootPermissions)

\* AssetStore.first_id
FirstId == 100000

\* isinstance(node, MutableMapping)
IsDirectory(tree, p) == tree[p].kind = "dir"

\* node.get(''): the permissions a directory holds, or None
DirectoryPermissions(tree, p) ==
    IF Append(p, "") \in DOMAIN tree /\ tree[Append(p, "")].kind = "perm"
    THEN tree[Append(p, "")].perm
    ELSE NoPermissions

\* AssetStore._get_node_permissions
GetNodePermissions(tree, p) ==
    CASE tree[p].kind = "dir"    -> DirectoryPermissions(tree, p)
      [] tree[p].kind = "active" -> tree[p].perm
      [] OTHER                   -> NoPermissions

\* AssetStore.allow_access_by_default
AllowAccessByDefault == TRUE

\* a traversal check that lets everybody pass
MayExecuteAlways(reg, ctx, permissions) == TRUE

\* AssetStore._may_execute
MayExecute(reg, ctx, permissions) ==
    IF ~permissions.null THEN PermissionGranted(reg, ctx, permissions, "x")
    ELSE AllowAccessByDefault

\* AssetStore._may_read_directory
MayReadDirectory(reg, ctx, permissions) ==
    IF ~permissions.null THEN PermissionGranted(reg, ctx, permissions, "r")
    ELSE AllowAccessByDefault

\* a key handed to _may_write_directory: a name, or the iterator's index
StrKey(name) == [kind |-> "str", s |-> name]
IntKey(i) == [kind |-> "int", i |-> i]

\* `key in node` for a directory: the names are the only keys a directory has
KeyInNode(tree, p, key) == key.kind = "str" /\ Append(p, key.s) \in DOMAIN tree

\* a write check that asks for no right at all
MayWriteDirectoryAlways(reg, ctx, permissions, tree, p, key) == "True"

\* AssetStore._may_write_directory: "True", "False", or the exception it raises
MayWriteDirectory(reg, ctx, permissions, tree, p, key) ==
    IF permissions.null THEN (IF AllowAccessByDefault THEN "True" ELSE "False")
    ELSE IF ~PermissionGranted(reg, ctx, permissions, "w") THEN "False"
    ELSE IF ~IsDirectory(tree, p) THEN "TypeError"     \* `key in node`, node an int or an ActiveAsset
    ELSE IF KeyInNode(tree, p, key) /\ IsRightGranted(permissions, reg, "*", "t")
         THEN LET existing == tree[Append(p, key.s)]
                  own      == DirectoryPermissions(tree, Append(p, key.s))
              IN  CASE existing.kind = "dir" ->
                         IF ctx.user = (IF own.null THEN permissions ELSE own).user_name
                         THEN "True" ELSE "False"
                    [] existing.kind = "active" ->
                         IF existing.perm.null THEN "AttributeError"
                         ELSE IF ctx.user = existing.perm.user_name THEN "True" ELSE "False"
                    [] OTHER -> "ValueError"           \* invalid directory entry
         ELSE "True"

\* what a refused or failed check raises
Raised(may) == IF may = "False" THEN "PermissionError" ELSE may

RECURSIVE SetNodeWalk(_, _, _, _, _, _, _, _)
\* the loop of AssetStore._set_node over path_iter(asset_tree, container_path,
\* on_miss=_missing_directory): component i of the path is looked up in the
\* node at cur; a missing one is created by _missing_directory; the node found
\* or created is entered by _perform_enter.
SetNodeWalk(reg, ctx, tree, comps, i, cur, current_permissions, last_permissions) ==
    LET eff == IF ~current_permissions.null THEN current_permissions ELSE last_permissions
    IN  IF i > Len(comps) - 1
        THEN [status |-> "walked", tree |-> tree, node |-> cur, eff |-> eff]
        ELSE
        LET key   == comps[i]
            next  == Append(cur, key)
            found == IsDirectory(tree, cur) /\ next \in DOMAIN tree
            may   == MayWriteDirectory(reg, ctx, eff, tree, cur, IntKey(i - 1))
        IN  IF ~found /\ may # "True"
            THEN [status |-> Raised(may), tree |-> tree, node |-> cur, eff |-> eff]
            ELSE
            LET tree1 == IF found THEN tree ELSE AssignEntry(tree, next, DirValue(NoPermissions))
                entered == GetNodePermissions(tree1, next)
                eff1  == IF ~entered.null THEN entered ELSE last_permissions
            IN  IF IsDirectory(tree1, next) /\ ~MayExecute(reg, ctx, eff1)
                THEN [status |-> "PermissionError", tree |-> tree1, node |-> next, eff |-> eff1]
                ELSE SetNodeWalk(reg, ctx, tree1, comps, i + 1, next, entered, eff1)

\* AssetStore._set_node: the tree it leaves and how it ended ("ok" or the
\* exception raised)
SetNode(reg, ctx, tree, comps, value) ==
    IF Len(comps) = 0 THEN [status |-> "PermissionError", tree |-> tree]
    ELSE
    LET root_permissions == DirectoryPermissions(tree, <<>>)
        w == SetNodeWalk(reg, ctx, tree, comps, 1, <<>>, root_permissions, root_permissions)
        entry_key == comps[Len(comps)]
        may == MayWriteDirectory(reg, ctx, w.eff, w.tree, w.node, StrKey(entry_key))
    IN  IF w.status # "walked" THEN [status |-> w.status, tree |-> w.tree]
        ELSE IF ~IsDirectory(w.tree, w.node) THEN [status |-> "ok", tree |-> w.tree]
        ELSE IF may = "True"
             THEN [status |-> "ok", tree |-> AssignEntry(w.tree, Append(w.node, entry_key), value)]
             ELSE [status |-> Raised(may), tree |-> w.tree]

RECURSIVE GetNodeWalk(_, _, _, _, _, _, _, _)
\* the loop of AssetStore._get_node
GetNodeWalk(reg, ctx, tree, comps, i, cur, current_permissions, last_directory_permissions) ==
    LET eff == IF ~current_permissions.null THEN current_permissions
               ELSE last_directory_permissions
    IN  IF i > Len(comps) \/ ~IsDirectory(tree, cur)
        THEN [node |-> cur, node_path |-> cur, permissions |-> eff, error |-> "none"]
        ELSE
        LET next == Append(cur, comps[i])
        IN  IF ~MayExecute(reg, ctx, eff)
            THEN [node |-> cur, node_path |-> next, permissions |-> eff, error |-> "denied"]
            ELSE IF next \notin DOMAIN tree
            THEN [node |-> cur, node_path |-> next, permissions |-> eff, error |-> "not found"]
            ELSE LET entered == GetNodePermissions(tree, next)
                 IN  GetNodeWalk(reg, ctx, tree, comps, i + 1, next, entered,
                                 IF ~entered.null THEN entered ELSE last_directory_permissions)

\* AssetStore._get_node
GetNode(reg, ctx, tree, comps) ==
    LET root_permissions == DirectoryPermissions(tree, <<>>)
    IN  GetNodeWalk(reg, ctx, tree, comps, 1, <<>>, root_permissions, root_permissions)

----------------------------------------------------------------------------
(* Python objects                                                          *)
(*                                                                         *)
(* Assets, dictionaries and lists are objects with identity: the heap is a *)
(* sequence of objects and a handle is an index into it, so two holders of *)
(* the same handle see each other's mutations.  Handle 0 is None.          *)

NoHandle == 0

DictObject(items) == [kind |-> "dict", items |-> items]
ListObject(items) == [kind |-> "list", items |-> items]

\* values held in a dictionary or list: a string, a reference to another
\* object, a path given as str, a TreePath
StrValue(s) == [t |-> "str", v |-> s]
RefValue(h) == [t |-> "ref", h |-> h]
PathStrValue(components) == [t |-> "path str", components |-> components]
TreePathValue(components) == [t |-> "TreePath", components |-> components]

Alloc(heap, obj) == Append(heap, obj)

\* an action object; the asset_reference actions name the asset they run
Action(name) == [kind |-> "action", name |-> name]

\* IAction.accepts_inner_access: False in lib/store/action.py, overridden to
\* True by DispatchToMemberAction
AcceptsInnerAccess(action) == action.kind = "action" /\ action.name = "DispatchToMemberAction"

\* no build result yet (None)
NoResult == [kind |-> "None"]

----------------------------------------------------------------------------
(* lib/store/asset.py *)

\* Asset.__init__ with the given action, action_args (a handle, or None),
\* permissions: `action_args or {}`, `meta or {}`, `dependencies or []` make
\* new containers.  The asset is the last object of the heap returned.
NewAsset(heap, action, action_args, permissions, local_id) ==
    LET args_given == action_args # NoHandle /\ heap[action_args].items # EmptyDict
        h1 == IF args_given THEN heap ELSE Alloc(heap, DictObject(EmptyDict))
        a  == IF args_given THEN action_args ELSE Len(h1)
        h2 == Alloc(h1, DictObject(EmptyDict))
        h3 == Alloc(h2, ListObject(<<>>))
    IN  Alloc(h3, [kind |-> "asset", action |-> action, action_args |-> a,
                   permissions |-> permissions, local_id |-> local_id,
                   updater |-> "basic", meta |-> Len(h2), build_result |-> NoResult,
                   dependencies |-> Len(h3), asset_help |-> NoHandle])

\* Asset(action, **kwargs): the keyword arguments become the action_args
NewAssetWithArgs(heap, action, items) ==
    LET h1 == Alloc(heap, DictObject(items))
    IN  NewAsset(h1, action, Len(h1), NoPermissions, -1)

\* dict.copy() / list.copy(): a new container holding the same values
CopyContainer(heap, h) == Alloc(heap, heap[h])

\* a clone that keeps the original's action_args dictionary
CloneSharingArgs(heap, h) ==
    LET o == heap[h]
    IN  Alloc(heap, [o EXCEPT !.action_args = o.action_args])

\* Asset.clone: the heap with the clone as its last object.  Every container
\* is copied one level deep (.copy()); an empty one is replaced by a new one.
Clone(heap, h) ==
    LET o  == heap[h]
        h1 == IF heap[o.action_args].items # EmptyDict
              THEN CopyContainer(heap, o.action_args)
              ELSE Alloc(heap, DictObject(EmptyDict))
        h2 == IF heap[o.meta].items # EmptyDict
              THEN CopyContainer(h1, o.meta)
              ELSE Alloc(h1, DictObject(EmptyDict))
        h3 == IF heap[o.dependencies].items # <<>>
              THEN CopyContainer(h2, o.dependencies)
              ELSE Alloc(h2, ListObject(<<>>))
        h4 == IF o.asset_help # NoHandle /\ heap[o.asset_help].items # EmptyDict
              THEN CopyContainer(h3, o.asset_help)
              ELSE h3
    IN  Alloc(h4, [o EXCEPT !.action_args = Len(h1), !.meta = Len(h2),
                            !.dependencies = Len(h3),
                            !.asset_help = IF Len(h4) > Len(h3) THEN Len(h4) ELSE NoHandle])

\* container[key] = value on the object behind a handle
SetItem(heap, h, key, value) ==
    [heap EXCEPT ![h].items = DictSet(@, key, value)]

----------------------------------------------------------------------------
(* lib/call_result.py, lib/store/update_strategy.py *)

\* what a call hands back: a plain value, None (NoResult), a CallResult, an
\* exception object, or an exception raised instead of a value
Plain(v) == [kind |-> "plain", v |-> v]
ExceptionObject(name) == [kind |-> "exception", name |-> name]
Raise(name) == [kind |-> "raise", name |-> name]

\* ValidResult.__init__: a ValidResult given as value is unwrapped, an
\* ErrorResult may be the value of a ValidResult
ValidResult(value) ==
    IF value.kind = "Valid"
    THEN [kind |-> "Valid", value |-> value.value]
    ELSE [kind |-> "Valid", value |-> value]

\* ErrorResult.from_exception(exception, prior_error=...)
FromException(exception, prior_error) ==
    [kind |-> "Error", exception |-> exception, prior_error |-> prior_error]

\* ErrorResult.from_exception(exception)
ErrorResult(exception) == FromException(exception, NoResult)

\* a ValidResult that wraps whatever it is given, a ValidResult included
ValidResultNested(value) == [kind |-> "Valid", value |-> value]

\* a CallResult.of that wraps every value, an ErrorResult included
CallResultOfWrapping(value) == ValidResult(value)

\* CallResult.of
CallResultOf(value) ==
    IF value.kind = "Error" THEN value
    ELSE IF value.kind = "exception" THEN ErrorResult(value.name)
    ELSE ValidResult(value)

\* ValidResult.then(func): outcome is what func(self.get_result()) hands back
ValidThen(r, outcome) ==
    IF outcome.kind = "raise" THEN ErrorResult(outcome.name) ELSE CallResultOf(outcome)

\* ErrorResult.then(func)
ErrorThen(r) == r

\* ValidResult.on_error(func)
ValidOnError(r) == r

\* ErrorResult.on_error(func): outcome is what func(self) hands back
ErrorOnError(r, outcome) ==
    IF outcome.kind = "raise" THEN FromException(outcome.name, r) ELSE CallResultOf(outcome)

\* an action that is a reference to another asset
Reference(h) == [kind |-> "reference", name |-> "AssetById", referee |-> h]

RECURSIVE ChainWalk(_, _, _)
\* the while loop of get_action_and_args: follows the references, collecting
\* the action_args of every asset referred to
ChainWalk(heap, action, args_from_asset) ==
    IF action.kind = "reference"
    THEN ChainWalk(heap, heap[action.referee].action,
                   Append(args_from_asset, heap[action.referee].action_args))
    ELSE [action |-> action, args_from_asset |-> args_from_asset]

RECURSIVE MergePopping(_, _, _)
\* the second loop of get_action_and_args: pops the collected dictionaries
\* from the end of the list and updates action_args with each
MergePopping(heap, args_from_asset, action_args) ==
    IF args_from_asset = <<>> THEN action_args
    ELSE MergePopping(heap, SubSeq(args_from_asset, 1, Len(args_from_asset) - 1),
                      DictUpdate(action_args, heap[args_from_asset[Len(args_from_asset)]].items))

\* get_action_and_args.  action.get_asset() is called without the context
\* that IAssetReference.get_asset(self, context) takes; can_resolve says
\* whether the reference class answers such a call, and without it the call
\* raises TypeError.
GetActionAndArgs(heap, h, can_resolve) ==
    LET walked == ChainWalk(heap, heap[h].action, <<>>)
        list   == Append(walked.args_from_asset, heap[h].action_args)
    IN  IF heap[h].action.kind = "reference" /\ ~can_resolve
        THEN [status |-> "TypeError"]
        ELSE IF walked.action.kind # "action" THEN [status |-> "ValueError"]
        ELSE [status |-> "ok", action |-> walked.action,
              action_args |-> MergePopping(heap, list, EmptyDict)]

\* what an update strategy hands back: the objects it leaves, how it ended
\* ("ok" or the exception raised), the asset returned, and, when the action
\* was executed, the asset it ran on and the arguments it ran with
Updated(heap, status, returned, ran, on, args) ==
    [objs |-> heap, status |-> status, returned |-> returned, ran |-> ran,
     on |-> on, args |-> args]

\* an action class that overrides the hooks of BasicAction: whether its
\* pre_update takes the arguments of BasicAction.pre_update or none, and what
\* pre_execute, execute and post_execute hand back
HookedAction(pre_update, pre, exec, post) ==
    [kind |-> "action", name |-> "HookedAction", pre_update |-> pre_update,
     pre_execute |-> pre, execute |-> exec, post_execute |-> post]

\* BasicAction.pre_execute passes
PreExecute(action) ==
    IF action.name = "HookedAction" THEN action.pre_execute ELSE NoResult

\* the execute() of the actions of the repository returns a value (TestAction:
\* a string)
Execute(action) ==
    IF action.name = "HookedAction" THEN action.execute ELSE Plain(action.name)

\* BasicAction.post_execute passes
PostExecute(action) ==
    IF action.name = "HookedAction" THEN action.post_execute ELSE NoResult

\* Python truthiness of what post_execute returned
Truthy(value) == value.kind # "None"

\* the last line of an execute_action that wraps whatever execute returned
CapturedAlwaysValid(result) == ValidResultNested(result)

\* the last line of execute_action:
\* result if isinstance(result, ErrorResult) else ValidResult(result)
Captured(result) == IF result.kind = "Error" THEN result ELSE ValidResult(result)

\* execute_action: the result, or the error of the hook that raised, is set
\* on the asset the action ran on, and that asset is returned
ExecuteAction(heap, h, action, action_args) ==
    LET pre    == PreExecute(action)
        result == Execute(action)
        post   == PostExecute(action)
        build  == IF pre.kind = "raise" THEN ErrorResult(pre.name)
                  ELSE IF result.kind = "raise" THEN ErrorResult(result.name)
                  ELSE IF post.kind = "raise" THEN ErrorResult(post.name)
                  ELSE IF Truthy(post) THEN Captured(post)
                  ELSE Captured(result)
    IN  Updated([heap EXCEPT ![h].build_result = build],
                "ok", h, pre.kind # "raise", h, action_args)

\* Asset.get_permissions raises ValueError when the asset has none
PermissionsMissing(heap, h) == heap[h].permissions.null

\* a parametrized update that asks for no right
ParametrizedUpdateUnchecked(reg, ctx, heap, h, action, action_args, kwargs) ==
    LET cloned == Clone(heap, h)
    IN  ExecuteAction(cloned, Len(cloned), action, DictUpdate(action_args, kwargs))

\* _update_without_user_params
UpdateWithoutUserParams(reg, ctx, heap, h, action, action_args) ==
    LET cloned == Clone(heap, h)
    IN  IF PermissionsMissing(heap, h)
        THEN Updated(heap, "ValueError", h, FALSE, NoHandle, EmptyDict)
        ELSE IF PermissionGranted(reg, ctx, heap[h].permissions, "r")
        THEN IF PermissionGranted(reg, ctx, heap[h].permissions, "w")
             THEN ExecuteAction(heap, h, action, action_args)
             ELSE ExecuteAction(cloned, Len(cloned), action, action_args)
        ELSE Updated(heap, "PermissionError", h, FALSE, NoHandle, EmptyDict)

\* _parametrized_update
ParametrizedUpdate(reg, ctx, heap, h, action, action_args, kwargs) ==
    LET cloned == Clone(heap, h)
    IN  IF PermissionsMissing(heap, h)
        THEN Updated(heap, "ValueError", h, FALSE, NoHandle, EmptyDict)
        ELSE IF PermissionGranted(reg, ctx, heap[h].permissions, "x")
        THEN ExecuteAction(cloned, Len(cloned), action, DictUpdate(action_args, kwargs))
        ELSE Updated(heap, "PermissionError", h, FALSE, NoHandle, EmptyDict)

\* UpdateStrategyBasic.update
UpdateStrategyBasic(reg, ctx, heap, h, kwargs, can_resolve) ==
    LET got == GetActionAndArgs(heap, h, can_resolve)
    IN  IF got.status # "ok" THEN Updated(heap, got.status, h, FALSE, NoHandle, EmptyDict)
        ELSE IF kwargs = EmptyDict
        THEN UpdateWithoutUserParams(reg, ctx, heap, h, got.action, got.action_args)
        ELSE ParametrizedUpdate(reg, ctx, heap, h, got.action, got.action_args, kwargs)

\* action.pre_update() as UpdateStrategyMake calls it, without arguments:
\* BasicAction.pre_update(self, asset, args, context) raises TypeError, and a
\* reference has no pre_update at all
PreUpdate(action) ==
    IF action.kind # "action" THEN Raise("AttributeError")
    ELSE IF action.name = "HookedAction" /\ action.pre_update = "takes none" THEN NoResult
    ELSE Raise("TypeError")

\* UpdateStrategyMake.update.  d.get_asset() is called without the context
\* as in get_action_and_args; update_required calls get_last_build_date,
\* is_phony and get_last_modification_date, none of which Asset defines, so
\* the loop over update_dependency and the final `pass` are never reached.
UpdateStrategyMake(reg, ctx, heap, h, kwargs, can_resolve) ==
    LET pre == PreUpdate(heap[h].action)
        dependencies == heap[heap[h].dependencies].items
    IN  IF pre.kind = "raise"
        THEN Updated(heap, pre.name, h, FALSE, NoHandle, EmptyDict)
        ELSE IF dependencies # <<>> /\ ~can_resolve
        THEN Updated(heap, "TypeError", h, FALSE, NoHandle, EmptyDict)
        ELSE Updated(heap, "AttributeError", h, FALSE, NoHandle, EmptyDict)

\* the keys of update_strategies
UpdateStrategies == {"basic", "make", "std"}

\* Asset.update: the strategy named by the updater runs; an exception of the
\* strategy becomes the ErrorResult of the asset update() was called on,
\* which is returned
AssetUpdate(reg, ctx, heap, h, kwargs, can_resolve) ==
    LET u == IF heap[h].updater \notin UpdateStrategies
             THEN Updated(heap, "KeyError", h, FALSE, NoHandle, EmptyDict)
             ELSE IF heap[h].updater = "make"
             THEN UpdateStrategyMake(reg, ctx, heap, h, kwargs, can_resolve)
             ELSE UpdateStrategyBasic(reg, ctx, heap, h, kwargs, can_resolve)
    IN  IF u.status = "ok" THEN u
        ELSE [u EXCEPT !.objs = [heap EXCEPT ![h].build_result = ErrorResult(u.status)],
                       !.returned = h]

----------------------------------------------------------------------------
(* lib/store/asset_store.py: AssetFileStorage                              *)

\* to_json of an asset: its fields with the containers written out by value
ToJson(heap, h) ==
    LET o == heap[h]
    IN  [action |-> o.action, action_args |-> heap[o.action_args].items,
         permissions |-> o.permissions, local_id |-> o.local_id,
         updater |-> o.updater, meta |-> heap[o.meta].items,
         build_result |-> o.build_result,
         dependencies |-> heap[o.dependencies].items]

\* from_json of an asset file: a new Asset built from the stored fields
FromJson(heap, json) ==
    LET h1 == Alloc(heap, DictObject(json.action_args))
        h2 == Alloc(h1, DictObject(json.meta))
        h3 == Alloc(h2, ListObject(json.dependencies))
    IN  Alloc(h3, [kind |-> "asset", action |-> json.action, action_args |-> Len(h1),
                   permissions |-> json.permissions, local_id |-> json.local_id,
                   updater |-> json.updater, meta |-> Len(h2),
                   build_result |-> json.build_result,
                   dependencies |-> Len(h3), asset_help |-> NoHandle])

\* a file that may not exist yet
NoFile(v) == [present |-> FALSE, v |-> v]
File(v) == [present |-> TRUE, v |-> v]

\* the backend directory after AssetFileStorage.__init__
EmptyStorage == [assets |-> EmptyDict, tree |-> NoFile(EmptyRoot), next_id |-> NoFile(FirstId)]

\* AssetFileStorage.save
StorageSave(st, heap, h) ==
    [st EXCEPT !.assets = DictSet(@, heap[h].local_id, ToJson(heap, h))]

\* AssetFileStorage.load_asset_tree: the saved tree, or empty_root()
LoadAssetTree(st) == IF st.tree.present THEN st.tree.v ELSE EmptyRoot

\* AssetFileStorage.load_asset_id: the saved counter, or first_id()
LoadAssetId(st) == IF st.next_id.present THEN st.next_id.v ELSE FirstId

----------------------------------------------------------------------------
(* lib/store/asset_store.py: AssetStore.acquire                            *)

\* a path argument: a dotted string or a TreePath, with the components it
\* parses to; NoPath is None
PathArg(form, components) == [form |-> form, components |-> components]
NoPath == [form |-> "None", components |-> <<>>]

\* len() of a component name
NameLength(name) ==
    IF name \in {"tmp", "bin"} THEN 3 ELSE IF name = "ls" THEN 2 ELSE 1

RECURSIVE DottedLength(_)
\* len() of the dotted string of a path
DottedLength(components) ==
    IF components = <<>> THEN 0
    ELSE IF Len(components) = 1 THEN NameLength(components[1])
    ELSE NameLength(Head(components)) + 1 + DottedLength(Tail(components))

\* len(path): characters of a str, components of a TreePath
PathLen(path) ==
    IF path.form = "str" THEN DottedLength(path.components) ELSE Len(path.components)

\* what an acquire gives back: the objects and cache it leaves, "asset" with
\* the handle returned, "default", or the exception raised
Acquired(heap, cache, h, source) ==
    [objs |-> heap, cache |-> cache, outcome |-> "asset", asset |-> h, source |-> source]
NotAcquired(heap, cache, outcome) ==
    [objs |-> heap, cache |-> cache, outcome |-> outcome, asset |-> NoHandle, source |-> "none"]

\* AssetStore._acquire_by_id
AcquireById(heap, cache, st, asset_id) ==
    IF asset_id \in DOMAIN cache THEN Acquired(heap, cache, cache[asset_id], "cache")
    ELSE IF asset_id \in DOMAIN st.assets
    THEN LET h1 == FromJson(heap, st.assets[asset_id])
         IN  Acquired(h1, DictSet(cache, asset_id, Len(h1)), Len(h1), "storage")
    ELSE NotAcquired(heap, cache, "default")

\* ActiveAsset.get_asset(context): the reference resolves through the store
GetAsset(heap, cache, st, asset_id) == AcquireById(heap, cache, st, asset_id)

\* the trailing components handed over as _inner_get: tree_path[len(node_path):]
InnerPath(components, node_path) ==
    SubSeq(components, Len(node_path) + 1, Len(components))

\* an inner path that drops its first component
InnerPathShort(components, node_path) ==
    SubSeq(components, Len(node_path) + 2, Len(components))

\* _acquire_active_asset, for the ActiveAsset found at node_path
AcquireActiveAsset(reg, ctx, heap, cache, st, path, node, node_path, path_permissions) ==
    LET has_inner_args == PathLen(path) > Len(node_path)
        permissions == IF node.perm.null THEN path_permissions ELSE node.perm
        got == GetAsset(heap, cache, st, node.id)
        h1  == Clone(got.objs, got.asset)
        h2  == SetItem(h1, h1[Len(h1)].action_args, "_inner_get",
                       TreePathValue(InnerPath(path.components, node_path)))
    IN  IF ~has_inner_args THEN got
        ELSE IF ~MayExecute(reg, ctx, permissions) THEN NotAcquired(heap, cache, "PermissionError")
        ELSE IF got.outcome # "asset" THEN NotAcquired(got.objs, got.cache, "AttributeError")
        ELSE Acquired(h2, got.cache, Len(h2), "clone")

\* AssetStore._acquire_by_path
AcquireByPath(reg, ctx, heap, tree, cache, st, path) ==
    LET g == GetNode(reg, ctx, tree, path.components)
        node == tree[g.node]
        dir_asset == NewAssetWithArgs(heap, Action("ReadDir"),
                                      [k \in {"path"} |-> PathStrValue(path.components)])
    IN  IF g.error # "none" THEN NotAcquired(heap, cache, "default")
        ELSE CASE node.kind = "dir"    -> Acquired(dir_asset, cache, Len(dir_asset), "directory")
               [] node.kind = "id"     -> AcquireById(heap, cache, st, node.id)
               [] node.kind = "active" ->
                    AcquireActiveAsset(reg, ctx, heap, cache, st, path, node,
                                       g.node_path, g.permissions)
               [] OTHER                -> NotAcquired(heap, cache, "None")

\* AssetStore.acquire(context, path=path): an empty path is falsy
Acquire(reg, ctx, heap, tree, cache, st, path) ==
    IF PathLen(path) = 0 THEN NotAcquired(heap, cache, "ValueError")
    ELSE AcquireByPath(reg, ctx, heap, tree, cache, st, path)

----------------------------------------------------------------------------
(* lib/store/asset_store.py: AssetStore.store, mkdir                       *)

\* UnixPermissions.make_permission for the registered user and group of a context
MakePermission(reg, ctx, mode) == UnixPermissions(ctx.user, ctx.group, mode)

\* AssetStore._permissions_from_mode
PermissionsFromMode(reg, ctx, mode) ==
    IF ~ModeTruthy(mode) THEN NoPermissions ELSE MakePermission(reg, ctx, mode)

----------------------------------------------------------------------------
(* The registry the repository's tests and demo build:                     *)
(* test_unix_permissions.py setUpClass, asset_store.py _make_user_registry *)

RECURSIVE MakeEntities(_, _)
MakeEntities(reg, names) ==
    IF names = <<>> THEN reg
    ELSE MakeEntities(MakeEntity(reg, Head(names)), Tail(names))

MakeUserRegistry ==
    LET made == MakeEntities(EmptyRegistry,
                    <<"root", "alice", "bob", "charly", "system", "team", "developers">>)
        r1   == AddLayerToEntity(made, "root", "system")
        r2   == AddLayerToEntity(r1, "team", "developers")
    IN  AddLayerToEntity(r2, "bob", "team")

----------------------------------------------------------------------------
(* AssetStore.__init__ over a new AssetFileStorage *)

StoreConstructed ==
    /\ objs = <<>>
    /\ asset_tree = EmptyRoot
    /\ asset_by_id_cache = EmptyDict
    /\ next_asset_id = FirstId
    /\ storage = EmptyStorage
    /\ issued = <<>>
    /\ clones = <<>>
    /\ executed = <<>>
    /\ steps = 0

----------------------------------------------------------------------------
(* Bounds *)

\* how many registry mutations (grant, revoke, add layer) a behaviour performs
MaxRegOps == 1

\* how many store operations a behaviour performs
MaxSteps == 3

----------------------------------------------------------------------------
(* Operations on one permissions record                                    *)

\* owner and group a record is made for
PermOwners == {<<"alice", "developers">>, <<"alice", None>>, <<"bob", "team">>}

\* every three-digit octal mode, and 0o1775
ChmodModes == {IntMode(m) : m \in 0..511} \cup {IntMode(1021)}

\* the modes the registry-varying specification uses
FewModes == {IntMode(509), IntMode(448), IntMode(56), IntMode(7), IntMode(0),
             StrMode(<<1, 7, 7, 5>>)}

InitPerm ==
    /\ entities = MakeUserRegistry
    /\ perm = UnixPermissions("alice", "developers", NoMode)
    /\ res = [op |-> "init", mode |-> NoMode, nreg |-> 0]
    /\ variants = <<>>
    /\ threads = <<>>
    /\ StoreConstructed

\* UnixPermissions.make_permission(registry, user, group, mode)
MakePermissionCall(user, group, mode) ==
    /\ IsKnownEntity(entities, user)
    /\ group = None \/ IsKnownEntity(entities, group)
    /\ perm' = UnixPermissions(user, group, mode)
    /\ res' = [res EXCEPT !.op = "make_permission", !.mode = mode]
    /\ UNCHANGED <<variants, threads, entities, storeVars>>

\* perm.chmod(mode)
ChmodCall(mode) ==
    /\ perm' = Chmod(perm, mode)
    /\ res' = [res EXCEPT !.op = "chmod", !.mode = mode]
    /\ UNCHANGED <<variants, threads, entities, storeVars>>

\* registry.revoke_right(name, right) / registry.grant_right(name, right)
SetRightCall(name, right, value) ==
    /\ res.nreg < MaxRegOps
    /\ entities' = SetCredential(entities, name, right, value)
    /\ res' = [res EXCEPT !.op = IF value THEN "grant_right" ELSE "revoke_right",
                          !.nreg = @ + 1]
    /\ UNCHANGED <<variants, threads, perm, storeVars>>

\* registry.add_layer_to_entity(name, layer_name); the caller prevents cycles
AddLayerCall(name, layer_name) ==
    /\ res.nreg < MaxRegOps
    /\ name # layer_name
    /\ ~InheritsFrom(entities, layer_name, name)
    /\ entities' = AddLayerToEntity(entities, name, layer_name)
    /\ res' = [res EXCEPT !.op = "add_layer", !.nreg = @ + 1]
    /\ UNCHANGED <<variants, threads, perm, storeVars>>

RegNames == {"alice", "bob", "team", "developers", "*"}

NextChmod ==
    \/ \E og \in PermOwners : MakePermissionCall(og[1], og[2], NoMode)
    \/ \E m \in ChmodModes : ChmodCall(m)

SpecChmod == InitPerm /\ [][NextChmod]_vars

NextPerm ==
    \/ \E og \in PermOwners, m \in FewModes \cup {NoMode} : MakePermissionCall(og[1], og[2], m)
    \/ \E m \in FewModes : ChmodCall(m)
    \/ \E n \in RegNames, r \in Rights \cup {"t"}, v \in BOOLEAN : SetRightCall(n, r, v)
    \/ \E n \in {"alice", "charly"}, l \in {"team", "developers"} : AddLayerCall(n, l)

SpecPerm == InitPerm /\ [][NextPerm]_vars

----------------------------------------------------------------------------
(* Operations on the asset store                                           *)

\* the contexts of the callers: (user, group)
Contexts == {Context("root", "system"), Context("alice", "developers"), Context("bob", "team")}

\* the paths stored to and made directories of
StorePaths == {<<"tmp">>, <<"tmp", "a">>}

\* the paths acquired: the stored ones and one below them
AcquirePaths == StorePaths \cup {<<"tmp", "a", "b">>}

\* the modes directories are made with: None, '1777', 0o700
MkdirModes == {NoMode, StrMode(<<1, 7, 7, 7>>), IntMode(448)}

\* the modes assets are stored with: None, 0o700
StoreModes == {NoMode, IntMode(448)}

\* the actions of the assets stored
StoredActions == {Action("TestAction"), Action("DispatchToMemberAction")}

\* the keyword arguments the stored assets are constructed with
StoredArgs == [k \in {"who"} |-> StrValue("world")]

InitStore ==
    /\ entities = MakeUserRegistry
    /\ perm = DefaultRootPermissions
    /\ StoreConstructed
    /\ variants = <<>>
    /\ threads = <<>>
    /\ res = [op |-> "init"]

\* store.store(context, Asset(action, who='world'), path, mode=mode)
StoreCall(ctx, action, path, mode) ==
    LET made   == NewAssetWithArgs(objs, action, StoredArgs)
        h      == Len(made)
        id     == IF made[h].local_id = -1 THEN next_asset_id ELSE made[h].local_id
        heap   == [made EXCEPT ![h].local_id = id,
                               ![h].permissions =
                                   IF ModeTruthy(mode) THEN PermissionsFromMode(entities, ctx, mode)
                                   ELSE @]
        active == AcceptsInnerAccess(action)
        value  == IF active
                  THEN ActiveValue(id, IF mode = NoMode THEN NoPermissions
                                       ELSE MakePermission(entities, ctx, mode))
                  ELSE IdValue(id)
        set    == SetNode(entities, ctx, asset_tree, path.components, value)
    IN  /\ steps < MaxSteps
        /\ steps' = steps + 1
        /\ objs' = heap
        /\ next_asset_id' = IF made[h].local_id = -1 THEN next_asset_id + 1 ELSE next_asset_id
        /\ issued' = IF made[h].local_id = -1 THEN Append(issued, id) ELSE issued
        /\ storage' = StorageSave(storage, heap, h)
        /\ asset_tree' = IF path = NoPath THEN asset_tree ELSE set.tree
        /\ asset_by_id_cache' =
               IF path # NoPath /\ ~active /\ set.status = "ok"
               THEN DictSet(asset_by_id_cache, id, h) ELSE asset_by_id_cache
        /\ res' = [op |-> "store", user |-> ctx.user, path |-> path, mode |-> mode,
                   outcome |-> IF path = NoPath THEN "ok" ELSE set.status,
                   asset |-> h, id |-> id, active |-> active]
        /\ UNCHANGED <<variants, threads, entities, perm, clones, executed>>

\* store.mkdir(context, path, mode=mode)
MkdirCall(ctx, path, mode) ==
    LET new_directory == DirValue(IF ModeTruthy(mode)
                                  THEN PermissionsFromMode(entities, ctx, mode)
                                  ELSE NoPermissions)
        set == SetNode(entities, ctx, asset_tree, path.components, new_directory)
        ok  == path.components # <<>>
    IN  /\ steps < MaxSteps
        /\ steps' = steps + 1
        /\ asset_tree' = IF ok THEN set.tree ELSE asset_tree
        /\ res' = [op |-> "mkdir", user |-> ctx.user, path |-> path, mode |-> mode,
                   outcome |-> IF ok THEN set.status ELSE "ValueError"]
        /\ UNCHANGED <<variants, threads, entities, perm, clones, executed, objs, next_asset_id, asset_by_id_cache, storage, issued>>

\* store.acquire(context, path)
AcquireCall(ctx, path) ==
    LET got == Acquire(entities, ctx, objs, asset_tree, asset_by_id_cache, storage, path)
    IN  /\ steps < MaxSteps
        /\ steps' = steps + 1
        /\ objs' = got.objs
        /\ asset_by_id_cache' = got.cache
        /\ res' = [op |-> "acquire", user |-> ctx.user, path |-> path,
                   outcome |-> got.outcome, asset |-> got.asset, source |-> got.source]
        /\ UNCHANGED <<variants, threads, entities, perm, clones, executed, asset_tree, next_asset_id, storage, issued>>

\* store.load()
LoadCall ==
    /\ steps < MaxSteps
    /\ steps' = steps + 1
    /\ asset_tree' = LoadAssetTree(storage)
    /\ next_asset_id' = LoadAssetId(storage)
    /\ res' = [op |-> "load"]
    /\ UNCHANGED <<variants, threads, entities, perm, clones, executed, objs, asset_by_id_cache, storage, issued>>

\* store.save()
SaveCall ==
    /\ steps < MaxSteps
    /\ steps' = steps + 1
    /\ storage' = [storage EXCEPT !.tree = File(asset_tree), !.next_id = File(next_asset_id)]
    /\ res' = [op |-> "save"]
    /\ UNCHANGED <<variants, threads, entities, perm, clones, executed, objs, asset_tree, next_asset_id, asset_by_id_cache, issued>>

\* store(context, asset, path=None, mode=None): a path string, or no path
StorePathArgs == {PathArg("str", c) : c \in StorePaths} \cup {NoPath}

\* mkdir(context, path, mode=None): a path string, the empty one included
MkdirPathArgs == {PathArg("str", c) : c \in StorePaths \cup {<<>>}}

\* acquire(context, path): a path string or a TreePath, the empty one included
AcquirePathArgs ==
    {PathArg(f, c) : f \in {"str", "TreePath"}, c \in AcquirePaths \cup {<<>>}}

NextStore ==
    \/ \E ctx \in Contexts, a \in StoredActions, m \in StoreModes,
          p \in StorePathArgs : StoreCall(ctx, a, p, m)
    \/ \E ctx \in Contexts, m \in MkdirModes,
          p \in MkdirPathArgs : MkdirCall(ctx, p, m)
    \/ \E ctx \in Contexts, p \in AcquirePathArgs : AcquireCall(ctx, p)
    \/ LoadCall
    \/ SaveCall

SpecStore == InitStore /\ [][NextStore]_vars

----------------------------------------------------------------------------
(* Operations on the directory tree, with paths given as sequences         *)

\* AssetStore.remove: the exception it raises (no path removes anything yet)
Remove(reg, ctx, tree, comps) ==
    IF Len(comps) = 0 THEN "ValueError"
    ELSE IF GetNode(reg, ctx, tree, SubSeq(comps, 1, Len(comps) - 1)).error # "none"
    THEN "PermissionError"
    ELSE "Exception"

\* store.remove(context, path)
RemoveCall(ctx, path) ==
    /\ steps < MaxSteps
    /\ steps' = steps + 1
    /\ res' = [op |-> "remove", user |-> ctx.user, path |-> path,
               outcome |-> Remove(entities, ctx, asset_tree, path.components)]
    /\ UNCHANGED <<variants, threads, entities, perm, clones, executed, objs, asset_tree, next_asset_id, asset_by_id_cache, storage, issued>>

\* the names used as keys, in the order str.__lt__ puts them
NamesAscending == <<"", "a", "b", "bin", "ls", "tmp">>

\* the place of a name in that order
NameIndex(name) == CHOOSE i \in 1..Len(NamesAscending) : NamesAscending[i] = name

RECURSIVE Sorted(_)
\* sorted(node): the keys of a mapping, ascending
Sorted(keys) ==
    IF keys = {} THEN <<>>
    ELSE LET least == CHOOSE k \in keys : \A o \in keys : NameIndex(k) <= NameIndex(o)
         IN  <<least>> \o Sorted(keys \ {least})

\* the keys of the directory at p
NodeKeys(tree, p) ==
    {q[Len(q)] : q \in {x \in DOMAIN tree : Len(x) = Len(p) + 1 /\ IsPrefix(p, x)}}

\* [f for f in sorted(node)]: every key listed, the permissions key included
ListedKeysUnfiltered(keys) == Sorted(keys)

\* [f for f in sorted(node) if f != '']
ListedKeys(keys) == SelectSeq(Sorted(keys), LAMBDA f : f # "")

\* AssetStore._permissions_for_node
PermissionsForNode(inherited_permission, tree, p) ==
    CASE tree[p].kind = "dir" /\ Append(p, "") \in DOMAIN tree -> DirectoryPermissions(tree, p)
      [] tree[p].kind = "active" -> tree[p].perm
      [] OTHER -> inherited_permission

\* the three flags short_repr prints for a name, and how many of its rights
\* are in the permissions
FlagsFor(permissions, name) ==
    [flags |-> [i \in 1..3 |->
                    LET r == <<"r", "w", "x">>[i]
                    IN  IF Key(r, name) \in DOMAIN permissions /\ permissions[Key(r, name)]
                        THEN r ELSE "-"],
     found |-> Cardinality({r \in {"r", "w", "x"} : Key(r, name) \in DOMAIN permissions})]

\* UnixPermissions.short_repr().split()[0]: the flags of user, group and
\* others, and a '+' when further rights are held
ShortRepr(p) ==
    LET u == FlagsFor(p.permissions, p.user_name)
        g == FlagsFor(p.permissions, p.group_name)
        o == FlagsFor(p.permissions, "*")
    IN  u.flags \o g.flags \o o.flags \o
        (IF Cardinality(DOMAIN p.permissions) > u.found + g.found + o.found
         THEN <<"+">> ELSE <<>>)

\* _entry_for_node: the listing of one child
EntryForNode(permissions, tree, p, entry_name) ==
    LET _permissions == PermissionsForNode(permissions, tree, Append(p, entry_name))
    IN  [name |-> entry_name, rights |-> ShortRepr(_permissions),
         user |-> _permissions.user_name, group |-> _permissions.group_name,
         dir |-> tree[Append(p, entry_name)].kind = "dir"]

\* what read_directory gives back: the listing, or the exception raised
Listing(contents, permissions) ==
    [outcome |-> "ok", contents |-> contents, permissions |-> permissions]
NoListing(exception) ==
    [outcome |-> exception, contents |-> <<>>, permissions |-> NoPermissions]

\* AssetStore._directory_to_json; an entry without permissions has no
\* short_repr
DirectoryToJson(tree, p, permissions) ==
    LET listed == ListedKeys(NodeKeys(tree, p))
    IN  IF \E i \in DOMAIN listed :
               PermissionsForNode(permissions, tree, Append(p, listed[i])).null
        THEN NoListing("AttributeError")
        ELSE Listing([i \in DOMAIN listed |-> EntryForNode(permissions, tree, p, listed[i])],
                     permissions)

\* AssetStore.read_directory: _get_node is handed the path as given, and a
\* str has no is_empty()
ReadDirectory(reg, ctx, tree, path) ==
    IF path.form = "str" THEN NoListing("AttributeError")
    ELSE LET g == GetNode(reg, ctx, tree, path.components)
         IN  IF g.error # "none" \/ ~IsDirectory(tree, g.node) THEN NoListing("ValueError")
             ELSE IF ~MayReadDirectory(reg, ctx, g.permissions) THEN NoListing("PermissionError")
             ELSE DirectoryToJson(tree, g.node, g.permissions)

\* store.read_directory(context, path)
ReadDirectoryCall(ctx, path) ==
    LET read == ReadDirectory(entities, ctx, asset_tree, path)
    IN  /\ steps < MaxSteps
        /\ steps' = steps + 1
        /\ res' = [op |-> "read_directory", user |-> ctx.user, path |-> path,
                   outcome |-> read.outcome, contents |-> read.contents]
        /\ UNCHANGED <<variants, threads, entities, perm, clones, executed, objs, asset_tree, next_asset_id, asset_by_id_cache, storage, issued>>

\* TreePath(['']): a path built from a sequence keeps the components it is
\* given, the constructor validates them only on request
EmptyNamePath == PathArg("TreePath", <<"">>)

\* the paths stored to: a path string, a sequence, or no path
TreeStorePathArgs == StorePathArgs \cup {PathArg("str", <<"a">>), EmptyNamePath}

\* the paths made directories of and removed
TreeMkdirPathArgs == MkdirPathArgs \cup {EmptyNamePath}

\* the paths listed: the root, a directory or an asset, as TreePath or str
TreeReadPathArgs ==
    {PathArg("TreePath", c) : c \in {<<>>, <<"tmp">>, <<"tmp", "a">>}} \cup {PathArg("str", <<"tmp">>)}

\* asset_tree['']: the entry every traversal starts from
RootPermissionsEntry ==
    IF <<"">> \in DOMAIN asset_tree THEN asset_tree[<<"">>] ELSE [kind |-> "missing"]

\* the store is followed up to the call that replaces the root's entry: from
\* there on the traversals read whatever was put in its place
NextTree ==
    \/ \E ctx \in Contexts, a \in StoredActions, m \in StoreModes, p \in TreeStorePathArgs :
          RootPermissionsEntry.kind = "perm" /\ StoreCall(ctx, a, p, m)
    \/ \E ctx \in Contexts, m \in MkdirModes, p \in TreeMkdirPathArgs :
          RootPermissionsEntry.kind = "perm" /\ MkdirCall(ctx, p, m)
    \/ \E ctx \in Contexts, p \in TreeMkdirPathArgs :
          RootPermissionsEntry.kind = "perm" /\ RemoveCall(ctx, p)
    \/ \E ctx \in Contexts, p \in TreeReadPathArgs :
          RootPermissionsEntry.kind = "perm" /\ ReadDirectoryCall(ctx, p)
    \/ RootPermissionsEntry.kind = "perm" /\ LoadCall
    \/ RootPermissionsEntry.kind = "perm" /\ SaveCall

SpecTree == InitStore /\ [][NextTree]_vars

----------------------------------------------------------------------------
(* Operations on assets: update, clone and direct mutation                 *)
(*                                                                         *)
(* Three assets: C runs TestAction, B's action is a reference to C, A's    *)
(* action is a reference to B.  Their action_args collide on every         *)
(* combination of keys; A's hold a list and A has a help dictionary.       *)

ArgsOfC == [k \in {"abc", "ac", "bc", "c"} |-> StrValue("C")]
ArgsOfB == [k \in {"abc", "ab", "bc", "b"} |-> StrValue("B")]
ArgsOfA(list) ==
    [k \in {"abc", "ab", "ac", "a", "list"} |->
        IF k = "list" THEN RefValue(list) ELSE StrValue("A")]

\* C = Asset(TestAction(), action_args={...}, permissions=p)
HeapWithC(p) ==
    LET h1 == Alloc(<<>>, DictObject(ArgsOfC))
    IN  NewAsset(h1, Action("TestAction"), Len(h1), p, -1)
AssetC == Len(HeapWithC(NoPermissions))

\* B = Asset(reference to C, action_args={...}, permissions=p)
HeapWithB(p) ==
    LET h1 == Alloc(HeapWithC(p), DictObject(ArgsOfB))
    IN  NewAsset(h1, Reference(AssetC), Len(h1), p, -1)
AssetB == Len(HeapWithB(NoPermissions))

\* A = Asset(reference to B, action_args={..., 'list': [...]}, permissions=p,
\*           asset_help={...})
HeapWithA(p) ==
    LET h1 == Alloc(HeapWithB(p), ListObject(<<StrValue("x")>>))
        h2 == Alloc(h1, DictObject(ArgsOfA(Len(h1))))
        h3 == Alloc(h2, DictObject([k \in {"text"} |-> StrValue("help")]))
        h4 == NewAsset(h3, Reference(AssetB), Len(h2), p, -1)
    IN  [h4 EXCEPT ![Len(h4)].asset_help = Len(h3)]
AssetA == Len(HeapWithA(NoPermissions))

\* the permissions the three assets are given: none, or alice:developers
\* with 0o754, 0o710, 0o470
AssetPermissions ==
    {NoPermissions} \cup
    {UnixPermissions("alice", "developers", IntMode(m)) : m \in {492, 456, 312}}

\* the callers of update: the owner, a member of the group, somebody else
UpdateContexts == {Context("alice", "developers"), Context("bob", "team"),
                   Context("charly", None)}

\* the keyword arguments update() is called with: none, or two overrides
UpdateKwargs == {EmptyDict, [k \in {"abc", "z"} |-> StrValue("caller")]}

\* the containers of an asset a caller mutates directly
Containers == {"action_args", "nested", "meta", "dependencies", "asset_help"}

InitUpdate ==
    /\ entities = MakeUserRegistry
    /\ perm = DefaultRootPermissions
    /\ \E p \in AssetPermissions : objs = HeapWithA(p)
    /\ asset_tree = EmptyRoot
    /\ asset_by_id_cache = EmptyDict
    /\ next_asset_id = FirstId
    /\ storage = EmptyStorage
    /\ issued = <<>>
    /\ clones = <<>>
    /\ executed = <<>>
    /\ steps = 0
    /\ variants = <<>>
    /\ threads = <<>>
    /\ res = [op |-> "init"]

\* asset.update(context, **kwargs)
UpdateCall(ctx, h, kwargs, can_resolve) ==
    LET u == AssetUpdate(entities, ctx, objs, h, kwargs, can_resolve)
    IN  /\ steps < MaxSteps
        /\ steps' = steps + 1
        /\ objs' = u.objs
        /\ executed' = IF u.ran
                       THEN Append(executed, [on |-> u.on, args |-> u.args, user |-> ctx.user])
                       ELSE executed
        /\ res' = [op |-> "update", user |-> ctx.user, asset |-> h, kwargs |-> kwargs,
                   returned |-> u.returned, status |-> u.status]
        /\ UNCHANGED <<variants, threads, entities, perm, asset_tree, next_asset_id, asset_by_id_cache, storage,
                       issued, clones>>

\* clone = asset.clone()
CloneCall(h) ==
    /\ steps < MaxSteps
    /\ steps' = steps + 1
    /\ objs' = Clone(objs, h)
    /\ clones' = Append(clones, [orig |-> h, clone |-> Len(objs')])
    /\ res' = [op |-> "clone", asset |-> h, returned |-> Len(objs')]
    /\ UNCHANGED <<variants, threads, entities, perm, asset_tree, next_asset_id, asset_by_id_cache, storage,
                   issued, executed>>

\* a caller's direct mutation of one container of an asset:
\* asset.action_args['a'] = ..., asset.action_args['list'].append(...),
\* asset.meta['phony'] = ..., asset.dependencies.append(...),
\* asset.asset_help['text'] = ...
MutateCall(h, what) ==
    LET o == objs[h]
        args == objs[o.action_args].items
    IN  /\ steps < MaxSteps
        /\ what = "nested" => "list" \in DOMAIN args /\ args["list"].t = "ref"
        /\ what = "asset_help" => o.asset_help # NoHandle
        /\ steps' = steps + 1
        /\ objs' = CASE what = "action_args" ->
                          SetItem(objs, o.action_args, "a", StrValue("changed"))
                     [] what = "nested" ->
                          [objs EXCEPT ![args["list"].h].items = Append(@, StrValue("y"))]
                     [] what = "meta" ->
                          SetItem(objs, o.meta, "phony", StrValue("changed"))
                     [] what = "dependencies" ->
                          [objs EXCEPT ![o.dependencies].items = Append(@, StrValue("dep"))]
                     [] what = "asset_help" ->
                          SetItem(objs, o.asset_help, "text", StrValue("changed"))
        /\ res' = [op |-> "mutate", asset |-> h, what |-> what]
        /\ UNCHANGED <<variants, threads, entities, perm, asset_tree, next_asset_id, asset_by_id_cache, storage,
                       issued, clones, executed>>

NextUpdate ==
    \/ \E ctx \in UpdateContexts, h \in {AssetA, AssetC}, kw \in UpdateKwargs, cr \in BOOLEAN :
          UpdateCall(ctx, h, kw, cr)
    \/ \E h \in {AssetA, AssetC} : CloneCall(h)
    \/ \E h \in {AssetA} \cup {clones[i].clone : i \in DOMAIN clones}, w \in Containers :
          MutateCall(h, w)

SpecUpdate == InitUpdate /\ [][NextUpdate]_vars

----------------------------------------------------------------------------
(* Building assets: update strategies and the hooks of an action           *)
(*                                                                         *)
(* Two assets: Y runs TestAction; X has Y as its only dependency, an       *)
(* updater, and an action whose hooks behave as chosen at construction.    *)

\* Y = Asset(TestAction(), permissions=p)
HeapWithY(p) == NewAsset(<<>>, Action("TestAction"), NoHandle, p, -1)
AssetY == Len(HeapWithY(NoPermissions))

\* X = Asset(action, permissions=p, updater=updater, dependencies=[Y])
HeapWithX(p, action, updater) ==
    LET h1 == NewAsset(HeapWithY(p), action, NoHandle, p, -1)
        x  == Len(h1)
    IN  [h1 EXCEPT ![x].updater = updater,
                   ![h1[x].dependencies].items = <<Reference(AssetY)>>]
AssetX == Len(HeapWithX(NoPermissions, Action("TestAction"), "basic"))

\* what a hook or execute() may hand back
PreUpdateHooks == {"BasicAction", "takes none"}
PreExecuteHooks == {NoResult, Raise("RuntimeError")}
ExecuteHooks == {Plain("value"), NoResult, ValidResultNested(Plain("value")),
                 ErrorResult("KeyError"), Raise("RuntimeError")}
PostExecuteHooks == {NoResult, Plain("replacement"), Raise("RuntimeError")}

\* the actions X is built with
BuildActions ==
    {HookedAction(u, pre, exec, post) :
        u \in PreUpdateHooks, pre \in PreExecuteHooks, exec \in ExecuteHooks,
        post \in PostExecuteHooks}

\* the updater X is built with: the default, 'make', a name that is no key
\* of update_strategies
BuildUpdaters == {"basic", "make", "parallel"}

\* the permissions of X and Y: none, or alice:developers with 0o754
BuildPermissions == {NoPermissions, UnixPermissions("alice", "developers", IntMode(492))}

\* the callers of update: the owner, somebody else
BuildContexts == {Context("alice", "developers"), Context("bob", "team")}

InitBuild ==
    /\ entities = MakeUserRegistry
    /\ perm = DefaultRootPermissions
    /\ \E p \in BuildPermissions, a \in BuildActions, u \in BuildUpdaters :
          objs = HeapWithX(p, a, u)
    /\ asset_tree = EmptyRoot
    /\ asset_by_id_cache = EmptyDict
    /\ next_asset_id = FirstId
    /\ storage = EmptyStorage
    /\ issued = <<>>
    /\ clones = <<>>
    /\ executed = <<>>
    /\ steps = 0
    /\ variants = <<>>
    /\ threads = <<>>
    /\ res = [op |-> "init"]

BuildAssets == {AssetX, AssetY}

NextBuild ==
    \E ctx \in BuildContexts, h \in BuildAssets, kw \in UpdateKwargs, cr \in BOOLEAN :
        UpdateCall(ctx, h, kw, cr)

SpecBuild == InitBuild /\ [][NextBuild]_vars

----------------------------------------------------------------------------
(* Threads on one asset: update against the mutators                       *)
(*                                                                         *)
(* X is updated by one thread while another calls its mutators.  A thread  *)
(* inside update() holds X's RLock from `with self._lock` to the return;   *)
(* between its steps the other threads run.  A mutator that takes the lock *)
(* waits while another thread holds it.                                    *)

\* the threads
Threads == {"T1", "T2"}

\* steps the threads take together
MaxThreadSteps == 6

\* where a thread is inside update(), and the locals it holds there
Position(pc, ctx, action, action_args, target) ==
    [pc |-> pc, ctx |-> ctx, action |-> action, action_args |-> action_args,
     target |-> target]

\* a thread outside every call
Outside == Position("outside", Context(None, None), NoResult, EmptyDict, NoHandle)

\* Asset._lock and the threads: nobody holds the lock, nobody is in a call
ThreadsOutside == [lock |-> "free", at |-> [t \in Threads |-> Outside]]

\* with self._lock: an RLock is acquired when it is free or the thread's own
LockAvailable(t) == threads.lock \in {"free", t}

\* the thread moves on inside update()
MoveTo(t, position) == [threads EXCEPT !.at[t] = position]

\* update() returns: the lock is released
Leave(t) == [lock |-> "free", at |-> [threads.at EXCEPT ![t] = Outside]]

\* except Exception as ex: self.set_result(ErrorResult.from_exception(ex))
CaptureAndLeave(t, exception) ==
    /\ objs' = [objs EXCEPT ![AssetX].build_result = ErrorResult(exception)]
    /\ threads' = Leave(t)
    /\ executed' = executed

\* X.update(context): with self._lock
UpdateEnter(t, ctx) ==
    /\ steps < MaxThreadSteps
    /\ threads.at[t].pc = "outside"
    /\ threads.lock = "free"
    /\ steps' = steps + 1
    /\ threads' = [lock |-> t,
                   at |-> [threads.at EXCEPT ![t] = Position("locked", ctx, NoResult, EmptyDict, NoHandle)]]
    /\ res' = [op |-> "update enter", thread |-> t]
    /\ UNCHANGED <<variants, entities, perm, objs, asset_tree, next_asset_id, asset_by_id_cache,
                   storage, issued, clones, executed>>

\* update_strategies[self.updater], get_action_and_args(asset)
UpdateGetAction(t) ==
    LET at  == threads.at[t]
        got == GetActionAndArgs(objs, AssetX, TRUE)
    IN  /\ steps < MaxThreadSteps
        /\ at.pc = "locked"
        /\ steps' = steps + 1
        /\ IF objs[AssetX].updater \notin UpdateStrategies THEN CaptureAndLeave(t, "KeyError")
           ELSE IF got.status # "ok" THEN CaptureAndLeave(t, got.status)
           ELSE /\ threads' = MoveTo(t, [at EXCEPT !.pc = "check r", !.action = got.action,
                                                   !.action_args = got.action_args])
                /\ UNCHANGED <<objs, executed>>
        /\ res' = [op |-> "update get action", thread |-> t]
        /\ UNCHANGED <<variants, entities, perm, asset_tree, next_asset_id, asset_by_id_cache,
                       storage, issued, clones>>

\* if context.permission_granted(asset.get_permissions(), 'r')
UpdateCheckRead(t) ==
    LET at == threads.at[t]
    IN  /\ steps < MaxThreadSteps
        /\ at.pc = "check r"
        /\ steps' = steps + 1
        /\ IF PermissionsMissing(objs, AssetX) THEN CaptureAndLeave(t, "ValueError")
           ELSE IF ~PermissionGranted(entities, at.ctx, objs[AssetX].permissions, "r")
           THEN CaptureAndLeave(t, "PermissionError")
           ELSE /\ threads' = MoveTo(t, [at EXCEPT !.pc = "check w"])
                /\ UNCHANGED <<objs, executed>>
        /\ res' = [op |-> "update check r", thread |-> t]
        /\ UNCHANGED <<variants, entities, perm, asset_tree, next_asset_id, asset_by_id_cache,
                       storage, issued, clones>>

\* if context.permission_granted(asset.get_permissions(), 'w'): the asset
\* itself is executed on, else asset.clone()
UpdateCheckWrite(t) ==
    LET at     == threads.at[t]
        cloned == Clone(objs, AssetX)
    IN  /\ steps < MaxThreadSteps
        /\ at.pc = "check w"
        /\ steps' = steps + 1
        /\ IF PermissionsMissing(objs, AssetX) THEN CaptureAndLeave(t, "ValueError")
           ELSE IF PermissionGranted(entities, at.ctx, objs[AssetX].permissions, "w")
           THEN /\ threads' = MoveTo(t, [at EXCEPT !.pc = "execute", !.target = AssetX])
                /\ UNCHANGED <<objs, executed>>
           ELSE /\ threads' = MoveTo(t, [at EXCEPT !.pc = "execute", !.target = Len(cloned)])
                /\ objs' = cloned
                /\ executed' = executed
        /\ res' = [op |-> "update check w", thread |-> t]
        /\ UNCHANGED <<variants, entities, perm, asset_tree, next_asset_id, asset_by_id_cache,
                       storage, issued, clones>>

\* execute_action(asset or clone, action, action_args, context), and the
\* return from update()
UpdateExecute(t) ==
    LET at == threads.at[t]
        u  == ExecuteAction(objs, at.target, at.action, at.action_args)
    IN  /\ steps < MaxThreadSteps
        /\ at.pc = "execute"
        /\ steps' = steps + 1
        /\ objs' = u.objs
        /\ executed' = IF u.ran
                       THEN Append(executed, [on |-> u.on, args |-> u.args, user |-> at.ctx.user])
                       ELSE executed
        /\ threads' = Leave(t)
        /\ res' = [op |-> "update return", thread |-> t]
        /\ UNCHANGED <<variants, entities, perm, asset_tree, next_asset_id, asset_by_id_cache,
                       storage, issued, clones>>

\* a call of a mutator by a thread outside update(): what it leaves of the
\* objects
Mutate(t, op, heap) ==
    /\ steps < MaxThreadSteps
    /\ threads.at[t].pc = "outside"
    /\ steps' = steps + 1
    /\ objs' = heap
    /\ res' = [op |-> op, thread |-> t]
    /\ UNCHANGED <<variants, threads, entities, perm, asset_tree, next_asset_id, asset_by_id_cache,
                   storage, issued, clones, executed>>

\* X.set_permissions(permissions): no lock is taken
SetPermissionsCall(t, permissions) ==
    Mutate(t, "set_permissions", [objs EXCEPT ![AssetX].permissions = permissions])

\* UpdateAssetAction._execute: update_asset.action = action_from_module, an
\* assignment to the attribute
ReloadActionCall(t, action) ==
    Mutate(t, "reload action", [objs EXCEPT ![AssetX].action = action])

\* X.set_action(action): with self._lock
SetActionCall(t, action) ==
    LockAvailable(t) /\ Mutate(t, "set_action", [objs EXCEPT ![AssetX].action = action])

\* X.set_action_arguments({'who': 'world'}): with self._lock
SetActionArgumentsCall(t) ==
    LET h1 == Alloc(objs, DictObject([k \in {"who"} |-> StrValue("world")]))
    IN  LockAvailable(t) /\
        Mutate(t, "set_action_arguments", [h1 EXCEPT ![AssetX].action_args = Len(h1)])

\* X.set_result(result): with self._lock
SetResultCall(t, result) ==
    LockAvailable(t) /\ Mutate(t, "set_result", [objs EXCEPT ![AssetX].build_result = result])

\* X.set_meta(note='world'): with self._lock
SetMetaCall(t) ==
    LockAvailable(t) /\
    Mutate(t, "set_meta",
           [objs EXCEPT ![objs[AssetX].meta].items = DictSet(@, "note", StrValue("world"))])

\* X.add_dependencies(reference to Y): with self._lock
AddDependenciesCall(t) ==
    LockAvailable(t) /\
    Mutate(t, "add_dependencies",
           [objs EXCEPT ![objs[AssetX].dependencies].items = Append(@, Reference(AssetY))])

\* the permissions X is given: alice:developers with 0o754, 0o700, 0o077
ThreadPermissions ==
    {UnixPermissions("alice", "developers", IntMode(492)),
     UnixPermissions("alice", "developers", IntMode(448)),
     UnixPermissions("alice", "developers", IntMode(63))}

\* the actions X is given
ThreadActions == {Action("TestAction"), Action("DispatchToMemberAction")}

\* the results X is given
ThreadResults == {ValidResult(Plain("set")), ErrorResult("KeyError")}

InitThreads ==
    /\ entities = MakeUserRegistry
    /\ perm = DefaultRootPermissions
    /\ objs = HeapWithX(UnixPermissions("alice", "developers", IntMode(492)),
                        Action("TestAction"), "basic")
    /\ asset_tree = EmptyRoot
    /\ asset_by_id_cache = EmptyDict
    /\ next_asset_id = FirstId
    /\ storage = EmptyStorage
    /\ issued = <<>>
    /\ clones = <<>>
    /\ executed = <<>>
    /\ steps = 0
    /\ variants = <<>>
    /\ threads = ThreadsOutside
    /\ res = [op |-> "init"]

NextThreads ==
    \/ \E t \in Threads, ctx \in BuildContexts : UpdateEnter(t, ctx)
    \/ \E t \in Threads : UpdateGetAction(t)
    \/ \E t \in Threads : UpdateCheckRead(t)
    \/ \E t \in Threads : UpdateCheckWrite(t)
    \/ \E t \in Threads : UpdateExecute(t)
    \/ \E t \in Threads, p \in ThreadPermissions : SetPermissionsCall(t, p)
    \/ \E t \in Threads, a \in ThreadActions : ReloadActionCall(t, a)
    \/ \E t \in Threads, a \in ThreadActions : SetActionCall(t, a)
    \/ \E t \in Threads : SetActionArgumentsCall(t)
    \/ \E t \in Threads, r \in ThreadResults : SetResultCall(t, r)
    \/ \E t \in Threads : SetMetaCall(t)
    \/ \E t \in Threads : AddDependenciesCall(t)

SpecThreads == InitThreads /\ [][NextThreads]_vars

----------------------------------------------------------------------------
(* Threads on one store: store against store, mkdir, acquire and           *)
(* read_directory                                                          *)
(*                                                                         *)
(* AssetStore holds no lock.  A thread inside store() is followed through  *)
(* _get_next_id statement by statement, and through _set_node from the     *)
(* lookup that misses the containing directory to the assignment that      *)
(* creates it; the other threads run between its steps.                    *)

\* steps the threads take together
MaxStoreSteps == 8

\* where a thread is inside store(), with its locals: the asset, the
\* `result` of _get_next_id, the path and mode; outside, what its last
\* store() left: how it ended, the asset, its id, whether the asset was put
\* into the cache, and whether _missing_directory made the directory
StorePosition(pc, ctx, asset, result, path, mode, outcome, cached, created) ==
    [pc |-> pc, ctx |-> ctx, asset |-> asset, result |-> result, path |-> path,
     mode |-> mode, outcome |-> outcome, cached |-> cached, created |-> created]

\* a thread that has not called store()
NotStoring ==
    StorePosition("outside", Context(None, None), NoHandle, -1, NoPath, NoMode, "none", FALSE,
                  FALSE)

\* no thread is in a call
StoreThreadsOutside == [t \in Threads |-> NotStoring]

\* store(context, Asset(action, who='world'), path, mode=mode) up to
\* _get_next_id: result = self.next_asset_id
StoreReadId(t, ctx, action, path, mode) ==
    LET made == NewAssetWithArgs(objs, action, StoredArgs)
    IN  /\ steps < MaxStoreSteps
        /\ threads[t].pc = "outside"
        /\ steps' = steps + 1
        /\ objs' = made
        /\ threads' = [threads EXCEPT ![t] =
                          StorePosition("read id", ctx, Len(made), next_asset_id, path, mode,
                                        "none", FALSE, FALSE)]
        /\ res' = [op |-> "store read id", thread |-> t]
        /\ UNCHANGED <<variants, entities, perm, asset_tree, next_asset_id, asset_by_id_cache,
                       storage, issued, clones, executed>>

\* self.next_asset_id += 1; return result; asset.set_id(result)
StoreSetId(t) ==
    LET at == threads[t]
    IN  /\ steps < MaxStoreSteps
        /\ at.pc = "read id"
        /\ steps' = steps + 1
        /\ next_asset_id' = next_asset_id + 1
        /\ objs' = [objs EXCEPT ![at.asset].local_id = at.result]
        /\ issued' = Append(issued, at.result)
        /\ threads' = [threads EXCEPT ![t].pc = "has id"]
        /\ res' = [op |-> "store set id", thread |-> t]
        /\ UNCHANGED <<variants, entities, perm, asset_tree, asset_by_id_cache, storage,
                       clones, executed>>

\* asset.set_permissions(...) for a mode, as store() does before saving
WithModePermissions(heap, at) ==
    [heap EXCEPT ![at.asset].permissions =
        IF ModeTruthy(at.mode) THEN PermissionsFromMode(entities, at.ctx, at.mode) ELSE @]

\* the value store() puts into the tree: the id, or an ActiveAsset
TreeValue(heap, at) ==
    IF AcceptsInnerAccess(heap[at.asset].action)
    THEN ActiveValue(at.result, IF at.mode = NoMode THEN NoPermissions
                                ELSE MakePermission(entities, at.ctx, at.mode))
    ELSE IdValue(at.result)

\* _set_node from where the thread stands, and for a bare id the entry in
\* the cache; store() returns
SetNodeAndReturn(t, tree) ==
    LET at     == threads[t]
        set    == SetNode(entities, at.ctx, tree, at.path.components, TreeValue(objs, at))
        cached == ~AcceptsInnerAccess(objs[at.asset].action) /\ set.status = "ok"
    IN  /\ asset_tree' = set.tree
        /\ asset_by_id_cache' = IF cached THEN DictSet(asset_by_id_cache, at.result, at.asset)
                                ELSE asset_by_id_cache
        /\ threads' = [threads EXCEPT ![t].pc = "outside", ![t].outcome = set.status,
                                      ![t].cached = cached]
        /\ res' = [op |-> "store", thread |-> t, outcome |-> set.status]

\* the rest of store() without a switch of threads: permissions from the
\* mode, storage.save, _set_node, the cache
StoreInsert(t) ==
    LET at   == threads[t]
        heap == WithModePermissions(objs, at)
    IN  /\ steps < MaxStoreSteps
        /\ at.pc = "has id"
        /\ steps' = steps + 1
        /\ objs' = heap
        /\ storage' = StorageSave(storage, heap, at.asset)
        /\ SetNodeAndReturn(t, asset_tree)
        /\ UNCHANGED <<variants, entities, perm, next_asset_id, issued, clones, executed>>

\* store() up to _missing_directory: the asset is saved, path_iter has
\* looked the first component up in the root and missed it, and the caller
\* may create it
StoreMissDirectory(t) ==
    LET at   == threads[t]
        heap == WithModePermissions(objs, at)
        root_permissions == DirectoryPermissions(asset_tree, <<>>)
    IN  /\ steps < MaxStoreSteps
        /\ at.pc = "has id"
        /\ Len(at.path.components) = 2
        /\ <<at.path.components[1]>> \notin DOMAIN asset_tree
        /\ MayExecute(entities, at.ctx, root_permissions)
        /\ MayWriteDirectory(entities, at.ctx, root_permissions, asset_tree, <<>>, IntKey(0)) = "True"
        /\ steps' = steps + 1
        /\ objs' = heap
        /\ storage' = StorageSave(storage, heap, at.asset)
        /\ threads' = [threads EXCEPT ![t].pc = "missed", ![t].created = TRUE]
        /\ res' = [op |-> "store missed directory", thread |-> t]
        /\ UNCHANGED <<variants, entities, perm, asset_tree, next_asset_id, asset_by_id_cache,
                       issued, clones, executed>>

\* _missing_directory: tree_iterator.current[key] = new_directory, whatever
\* the key holds by now; then the rest of _set_node
StoreCreateDirectory(t) ==
    LET at == threads[t]
    IN  /\ steps < MaxStoreSteps
        /\ at.pc = "missed"
        /\ steps' = steps + 1
        /\ SetNodeAndReturn(t, AssignEntry(asset_tree, <<at.path.components[1]>>,
                                           DirValue(NoPermissions)))
        /\ UNCHANGED <<variants, entities, perm, objs, storage, next_asset_id, issued, clones,
                       executed>>

\* store.mkdir(context, path, mode=mode) by a thread
MkdirThread(t, ctx, path, mode) ==
    LET new_directory == DirValue(IF ModeTruthy(mode)
                                  THEN PermissionsFromMode(entities, ctx, mode)
                                  ELSE NoPermissions)
        set == SetNode(entities, ctx, asset_tree, path.components, new_directory)
    IN  /\ steps < MaxStoreSteps
        /\ threads[t].pc = "outside"
        /\ steps' = steps + 1
        /\ asset_tree' = set.tree
        /\ res' = [op |-> "mkdir", thread |-> t, outcome |-> set.status]
        /\ UNCHANGED <<variants, threads, entities, perm, clones, executed, objs, next_asset_id,
                       asset_by_id_cache, storage, issued>>

\* store.acquire(context, path) by a thread
AcquireThread(t, ctx, path) ==
    LET got == Acquire(entities, ctx, objs, asset_tree, asset_by_id_cache, storage, path)
    IN  /\ steps < MaxStoreSteps
        /\ threads[t].pc = "outside"
        /\ steps' = steps + 1
        /\ objs' = got.objs
        /\ asset_by_id_cache' = got.cache
        /\ res' = [op |-> "acquire", thread |-> t, outcome |-> got.outcome]
        /\ UNCHANGED <<variants, threads, entities, perm, clones, executed, asset_tree,
                       next_asset_id, storage, issued>>

\* store.read_directory(context, TreePath()) by a thread
ReadDirectoryThread(t, ctx, path) ==
    LET read == ReadDirectory(entities, ctx, asset_tree, path)
    IN  /\ steps < MaxStoreSteps
        /\ threads[t].pc = "outside"
        /\ steps' = steps + 1
        /\ res' = [op |-> "read_directory", thread |-> t, outcome |-> read.outcome]
        /\ UNCHANGED <<variants, threads, entities, perm, clones, executed, objs, asset_tree,
                       next_asset_id, asset_by_id_cache, storage, issued>>

\* the callers of the threads
StoreThreadContexts == {Context("root", "system")}

\* the paths the threads store to and acquire: two names in one directory
StoreThreadPathArgs == {PathArg("str", <<"tmp", "a">>), PathArg("str", <<"tmp", "b">>)}

\* the directory the threads make
MkdirThreadPathArgs == {PathArg("str", <<"tmp">>)}

\* the root, as the TreePath read_directory is given
RootPathArgs == {PathArg("TreePath", <<>>)}

\* the actions of the assets the threads store
StoreThreadActions == {Action("TestAction")}

\* the modes the threads store with
StoreThreadModes == {NoMode}

InitStoreThreads ==
    /\ entities = MakeUserRegistry
    /\ perm = DefaultRootPermissions
    /\ StoreConstructed
    /\ variants = <<>>
    /\ threads = StoreThreadsOutside
    /\ res = [op |-> "init"]

NextStoreThreads ==
    \/ \E t \in Threads, ctx \in StoreThreadContexts, a \in StoreThreadActions,
          p \in StoreThreadPathArgs, m \in StoreThreadModes : StoreReadId(t, ctx, a, p, m)
    \/ \E t \in Threads : StoreSetId(t)
    \/ \E t \in Threads : StoreInsert(t)
    \/ \E t \in Threads : StoreMissDirectory(t)
    \/ \E t \in Threads : StoreCreateDirectory(t)
    \/ \E t \in Threads, ctx \in StoreThreadContexts, p \in MkdirThreadPathArgs,
          m \in StoreThreadModes : MkdirThread(t, ctx, p, m)
    \/ \E t \in Threads, ctx \in StoreThreadContexts, p \in StoreThreadPathArgs :
          AcquireThread(t, ctx, p)
    \/ \E t \in Threads, ctx \in StoreThreadContexts, p \in RootPathArgs :
          ReadDirectoryThread(t, ctx, p)

SpecStoreThreads == InitStoreThreads /\ [][NextStoreThreads]_vars

----------------------------------------------------------------------------
(* Chains of CallResults: r.then(f).on_error(g)...                         *)

\* a function handed to then / on_error: one that hands back (or raises) the
\* same thing whatever it is called with, or one that hands back its argument
Returning(outcome) == [kind |-> "returning", outcome |-> outcome]
Identity == [kind |-> "identity", outcome |-> NoResult]

\* func(argument)
Apply(func, argument) == IF func.kind = "identity" THEN argument ELSE func.outcome

\* what a call of then / on_error gives: the CallResult returned and the
\* arguments func was called with
Chained(result, calls) == [result |-> result, calls |-> calls]

\* r.then(func)
Then(r, func) ==
    IF r.kind = "Error" THEN Chained(ErrorThen(r), <<>>)
    ELSE Chained(ValidThen(r, Apply(func, r.value)), <<r.value>>)

\* r.on_error(func)
OnError(r, func) ==
    IF r.kind = "Error" THEN Chained(ErrorOnError(r, Apply(func, r)), <<r>>)
    ELSE Chained(ValidOnError(r), <<>>)

\* the results chains start from: CallResult.of a value, of None, of an
\* ErrorResult and of an exception, and a ValidResult made of an ErrorResult
InitialResults ==
    {CallResultOf(Plain("value")), CallResultOf(NoResult),
     CallResultOf(ErrorResult("KeyError")), CallResultOf(ExceptionObject("ValueError")),
     ValidResult(ErrorResult("KeyError"))}

\* the functions chained
ChainedFunctions ==
    {Returning(Plain("other")), Returning(NoResult), Returning(ValidResult(Plain("other"))),
     Returning(ErrorResult("IndexError")), Returning(ExceptionObject("OSError")),
     Returning(Raise("RuntimeError")), Identity}

InitChain ==
    /\ entities = MakeUserRegistry
    /\ perm = DefaultRootPermissions
    /\ StoreConstructed
    /\ variants = <<>>
    /\ threads = <<>>
    /\ \E r \in InitialResults :
          res = [op |-> "of", r |-> r, func |-> Identity, result |-> r, calls |-> <<>>]

\* res.result.then(func)
ThenCall(func) ==
    LET c == Then(res.result, func)
    IN  /\ steps < MaxSteps
        /\ steps' = steps + 1
        /\ res' = [op |-> "then", r |-> res.result, func |-> func, result |-> c.result,
                   calls |-> c.calls]
        /\ UNCHANGED <<variants, threads, entities, perm, objs, asset_tree, next_asset_id,
                       asset_by_id_cache, storage, issued, clones, executed>>

\* res.result.on_error(func)
OnErrorCall(func) ==
    LET c == OnError(res.result, func)
    IN  /\ steps < MaxSteps
        /\ steps' = steps + 1
        /\ res' = [op |-> "on_error", r |-> res.result, func |-> func, result |-> c.result,
                   calls |-> c.calls]
        /\ UNCHANGED <<variants, threads, entities, perm, objs, asset_tree, next_asset_id,
                       asset_by_id_cache, storage, issued, clones, executed>>

NextChain ==
    \/ \E func \in ChainedFunctions : ThenCall(func)
    \/ \E func \in ChainedFunctions : OnErrorCall(func)

SpecChain == InitChain /\ [][NextChain]_vars

----------------------------------------------------------------------------
(* lib/value_predicate.py, lib/precondition.py, lib/dispatcher_decorator.py *)

\* the values a dispatched method is called with: an int, a str, and the
\* object the method is called on
IntValue(n) == [type |-> "int", v |-> n]
StrArgument == [type |-> "str", v |-> 0]
SelfValue == [type |-> "object", v |-> 0]

\* is_a(t)(value)
IsA(t, value) == value.type = t

\* the predicates of a precondition: is_a(t), in_range(lo, hi), optional(p)
IsAPredicate(t) == [kind |-> "is_a", type |-> t, lo |-> 0, hi |-> 0, optional |-> FALSE]
InRange(lo, hi) == [kind |-> "in_range", type |-> "int", lo |-> lo, hi |-> hi, optional |-> FALSE]
Optional(p) == [kind |-> p.kind, type |-> p.type, lo |-> p.lo, hi |-> p.hi, optional |-> TRUE]

\* predicate_matches: in_range compares with <, which raises TypeError for a
\* str
PredicateMatches(predicate, value) ==
    IF predicate.kind = "is_a"
    THEN IF IsA(predicate.type, value) THEN "True" ELSE "False"
    ELSE IF value.type # "int" THEN "TypeError"
    ELSE IF value.v < predicate.lo \/ predicate.hi < value.v THEN "False" ELSE "True"

IsOptionalPredicate(predicate) == predicate.optional

\* inspect.Parameter: name, annotation ("empty" when there is none), whether
\* it has a default, and its kind
Parameter(name, annotation, has_default) ==
    [name |-> name, annotation |-> annotation, has_default |-> has_default,
     kind |-> "POSITIONAL_OR_KEYWORD"]
VarKeyword(name) ==
    [name |-> name, annotation |-> "empty", has_default |-> FALSE, kind |-> "VAR_KEYWORD"]

\* what variant() appends to _variants: the method, with its precondition if
\* it has one, and its signature
Variant(guarded, signature, precondition_kwargs) ==
    [guarded |-> guarded, signature |-> signature, precondition |-> precondition_kwargs]

\* a call: the positional arguments, and the keyword arguments in call order
Call(args, kwargs) == [args |-> args, kwargs |-> kwargs]
Keyword(name, value) == [name |-> name, value |-> value]

Checked(status, unprocessed, to_check) ==
    [status |-> status, unprocessed |-> unprocessed, to_check |-> to_check]

\* the annotation and predicate checks of one argument against the parameter
\* it is taken for
CheckArgument(v, declaration, name, value) ==
    IF declaration.annotation # "empty" /\ ~IsA(declaration.annotation, value)
    THEN "PreconditionFailed"
    ELSE IF name \notin DOMAIN v.precondition THEN "ok"
    ELSE LET m == PredicateMatches(v.precondition[name], value)
         IN  IF m = "TypeError" THEN "TypeError"
             ELSE IF m = "False" THEN "PreconditionFailed" ELSE "ok"

RECURSIVE CheckPositional(_, _, _, _)
\* _check_preconditions, the loop over call_args: every positional argument
\* takes the next parameter of the signature, whatever its kind
CheckPositional(v, args, i, to_check) ==
    IF i > Len(args) THEN Checked("ok", {}, to_check)
    ELSE IF i > Len(v.signature)
    THEN Checked(IF i = 1 THEN "NameError" ELSE "PreconditionFailed", {}, to_check)
    ELSE LET declaration == v.signature[i]
             c == CheckArgument(v, declaration, declaration.name, args[i])
         IN  IF c # "ok" THEN Checked(c, {}, to_check)
             ELSE CheckPositional(v, args, i + 1, to_check \ {declaration.name})

RECURSIVE CheckKeywords(_, _, _, _, _, _)
\* _check_preconditions, the loop over call_kwargs.  unprocessed holds the
\* positions of the parameters no argument was taken for yet.
CheckKeywords(v, kwargs, j, has_kwargs, unprocessed, to_check) ==
    IF j > Len(kwargs) THEN Checked("ok", unprocessed, to_check)
    ELSE LET name == kwargs[j].name
             at   == {i \in unprocessed : v.signature[i].name = name}
         IN  IF at = {}
             THEN IF has_kwargs
                  THEN CheckKeywords(v, kwargs, j + 1, has_kwargs, unprocessed, to_check)
                  ELSE IF name \in DOMAIN v.precondition
                  THEN Checked("UnboundLocalError", unprocessed, to_check)
                  ELSE Checked("PreconditionFailed", unprocessed, to_check)
             ELSE LET i == CHOOSE i \in at : TRUE
                      c == CheckArgument(v, v.signature[i], name, kwargs[j].value)
                  IN  IF c # "ok" THEN Checked(c, unprocessed, to_check)
                      ELSE CheckKeywords(v, kwargs, j + 1, has_kwargs,
                                         unprocessed \ {i}, to_check \ {name})

\* _check_preconditions: "ok", or the exception it raises
CheckPreconditions(v, call) ==
    LET positional  == CheckPositional(v, call.args, 1, DOMAIN v.precondition)
        unprocessed == {i \in DOMAIN v.signature : i > Len(call.args)}
        has_kwargs  == \E i \in unprocessed : v.signature[i].kind = "VAR_KEYWORD"
        keywords    == CheckKeywords(v, call.kwargs, 1, has_kwargs, unprocessed,
                                     positional.to_check)
        missing     == {i \in keywords.unprocessed : ~v.signature[i].has_default}
    IN  IF positional.status # "ok" THEN positional.status
        ELSE IF keywords.status # "ok" THEN keywords.status
        ELSE IF \E i \in missing :
                    /\ ~(/\ v.signature[i].name \in DOMAIN v.precondition
                         /\ IsOptionalPredicate(v.precondition[v.signature[i].name]))
                    /\ v.signature[i].kind # "VAR_KEYWORD"
        THEN "PreconditionFailed"
        ELSE IF \E n \in keywords.to_check : ~IsOptionalPredicate(v.precondition[n])
        THEN "PreconditionFailed"
        ELSE "ok"

\* the names the keyword arguments of a call are given under
KeywordNames(call) == {call.kwargs[j].name : j \in DOMAIN call.kwargs}

\* Python's binding of the arguments of function(*args, **kwargs) to the
\* parameters of the signature: FALSE when the call raises TypeError
ArgumentsBind(signature, call) ==
    LET named   == {i \in DOMAIN signature : signature[i].kind = "POSITIONAL_OR_KEYWORD"}
        var_kw  == \E i \in DOMAIN signature : signature[i].kind = "VAR_KEYWORD"
        by_name == {i \in named : signature[i].name \in KeywordNames(call)}
    IN  /\ Len(call.args) <= Cardinality(named)
        /\ \A i \in by_name : i > Len(call.args)
        /\ var_kw \/ \A n \in KeywordNames(call) : \E i \in named : signature[i].name = n
        /\ \A i \in named : signature[i].has_default \/ i <= Len(call.args) \/ i \in by_name

\* what a dispatched call comes to: the variant the dispatcher called (0 for
\* none), whether the body of that variant ran, and the exception raised
Dispatched(selected, invoked, raised) ==
    [selected |-> selected, invoked |-> invoked, raised |-> raised]

\* unconditional_call(method_variant, ...) / method_variant(...): the body
\* runs and returns when Python can bind the arguments
CallVariant(v, call, i) ==
    IF ArgumentsBind(v.signature, call)
    THEN Dispatched(i, TRUE, "none")
    ELSE Dispatched(i, FALSE, "TypeError")

RECURSIVE Dispatcher(_, _, _)
\* dispatcher(*args, **kwargs): the loop over the variants from the i-th on.
\* precondition_ok turns PreconditionFailed and AttributeError into False;
\* any other exception of the check leaves the dispatcher.
Dispatcher(vs, call, i) ==
    IF i > Len(vs) THEN Dispatched(0, FALSE, "TypeError: No variant")
    ELSE IF vs[i].guarded
    THEN LET pre == CheckPreconditions(vs[i], call)
         IN  IF pre = "ok" THEN CallVariant(vs[i], call, i)
             ELSE IF pre \in {"PreconditionFailed", "AttributeError"}
             THEN Dispatcher(vs, call, i + 1)
             ELSE Dispatched(i, FALSE, pre)
    ELSE IF Len(call.args) = Len(vs[i].signature)
    THEN CallVariant(vs[i], call, i)
    ELSE Dispatcher(vs, call, i + 1)

\* the variants of one method name a class may define
\*   @conditional()                            def f(self, x, **kwargs)
\*   @conditional()                            def f(self, x, y)
\*   @conditional(x=in_range(1000, 3000))      def f(self, x: int)
\*   @conditional(y=optional(is_a(str)))       def f(self, x: str, y='')
\*   @variant                                  def f(self, x: int)
Self == Parameter("self", "empty", FALSE)
DefinedVariants ==
    {Variant(TRUE, <<Self, Parameter("x", "empty", FALSE), VarKeyword("kwargs")>>, EmptyDict),
     Variant(TRUE, <<Self, Parameter("x", "empty", FALSE), Parameter("y", "empty", FALSE)>>,
             EmptyDict),
     Variant(TRUE, <<Self, Parameter("x", "int", FALSE)>>,
             [n \in {"x"} |-> InRange(1000, 3000)]),
     Variant(TRUE, <<Self, Parameter("x", "str", FALSE), Parameter("y", "empty", TRUE)>>,
             [n \in {"y"} |-> Optional(IsAPredicate("str"))]),
     Variant(FALSE, <<Self, Parameter("x", "int", FALSE)>>, EmptyDict)}

\* the calls made: o.f(), o.f(2337), o.f(500), o.f('s'), o.f(2337, 's'),
\* o.f(x=2337), o.f('s', y='s'), o.f('s', y=500), o.f(2337, z=500)
DispatchedCalls ==
    {Call(<<SelfValue>>, <<>>),
     Call(<<SelfValue, IntValue(2337)>>, <<>>),
     Call(<<SelfValue, IntValue(500)>>, <<>>),
     Call(<<SelfValue, StrArgument>>, <<>>),
     Call(<<SelfValue, IntValue(2337), StrArgument>>, <<>>),
     Call(<<SelfValue>>, <<Keyword("x", IntValue(2337))>>),
     Call(<<SelfValue, StrArgument>>, <<Keyword("y", StrArgument)>>),
     Call(<<SelfValue, StrArgument>>, <<Keyword("y", IntValue(500))>>),
     Call(<<SelfValue, IntValue(2337)>>, <<Keyword("z", IntValue(500))>>)}

\* the most variants one method name is given
MaxVariants == 3

InitDispatch ==
    /\ entities = MakeUserRegistry
    /\ perm = DefaultRootPermissions
    /\ StoreConstructed
    /\ variants = <<>>
    /\ threads = <<>>
    /\ res = [op |-> "init"]

\* DispatchedNamespace.variant(method), at class definition
VariantCall(v) ==
    /\ Len(variants) < MaxVariants
    /\ variants' = Append(variants, v)
    /\ res' = [op |-> "variant"]
    /\ UNCHANGED <<threads, entities, perm, storeVars>>

\* a call of the dispatcher that variant() returned
DispatcherCall(call) ==
    /\ variants # <<>>
    /\ res' = [op |-> "dispatch", call |-> call, out |-> Dispatcher(variants, call, 1)]
    /\ UNCHANGED <<variants, threads, entities, perm, storeVars>>

NextDispatch ==
    \/ \E v \in DefinedVariants : VariantCall(v)
    \/ \E call \in DispatchedCalls : DispatcherCall(call)

SpecDispatch == InitDispatch /\ [][NextDispatch]_vars

----------------------------------------------------------------------------
(* Vocabulary of the claims about permissions *)

RECURSIVE AncestorsWithin(_, _, _)
\* the entities reachable from the set S over at most n inheritance edges
AncestorsWithin(reg, S, n) ==
    IF n = 0 THEN S
    ELSE AncestorsWithin(reg,
            S \cup {b \in DOMAIN reg : \E e \in S \cap DOMAIN reg :
                        \E i \in 1..Len(reg[e].inherits) : reg[e].inherits[i] = b},
            n - 1)

\* entity e has group g among its bases, their bases, and so on
InheritsTransitively(reg, e, g) ==
    /\ e \in DOMAIN reg
    /\ \E b \in DOMAIN reg :
          /\ \E i \in 1..Len(reg[e].inherits) : reg[e].inherits[i] = b
          /\ g \in AncestorsWithin(reg, {b}, Cardinality(DOMAIN reg))

\* the permissions record has the bit right:name set
BitSet(p, right, name) ==
    /\ Key(right, name) \in DOMAIN p.permissions
    /\ p.permissions[Key(right, name)]

\* the registry's merged view of entity name holds right:name
HoldsInRegistry(reg, name, right) ==
    /\ name \in DOMAIN reg
    /\ Key(right, name) \in DOMAIN reg[name].credentials
    /\ reg[name].credentials[Key(right, name)]

\* clauses (a), (b), (c) of the rights query
GrantClauses(p, reg, e, right) ==
    \/ e = p.user_name /\ BitSet(p, right, p.user_name) /\ HoldsInRegistry(reg, p.user_name, right)
    \/ /\ InheritsTransitively(reg, e, p.group_name)
       /\ BitSet(p, right, p.group_name)
       /\ HoldsInRegistry(reg, p.group_name, right)
    \/ BitSet(p, right, "*") /\ HoldsInRegistry(reg, "*", right)

\* the names a rights query is asked for; mallory is never registered
QueryNames == {"alice", "bob", "charly", "team", "developers", "*", "mallory"}

QueryRights == Rights \cup {"t"}

\* C5 as stated: for every entity name and right, is_right_granted is true iff
\* the owner clause, the group clause or the `*` clause holds.
C5_AsStated ==
    \A e \in QueryNames, r \in QueryRights :
        IsRightGranted(perm, entities, e, r) = GrantClauses(perm, entities, e, r)

\* C5 amended: for every entity known to the registry, is_right_granted is true
\* iff the owner clause, the group clause or the `*` clause holds; for a name the
\* registry does not know it is false whatever the bits are.
C5_RightsQuery ==
    \A e \in QueryNames, r \in QueryRights :
        IsRightGranted(perm, entities, e, r) =
            (e \in DOMAIN entities /\ GrantClauses(perm, entities, e, r))

\* C5 witness: bob is granted w only through the group developers, which he
\* inherits by way of team, while the unknown mallory is refused r although the
\* `*` bit for r is set.
C5_Witness ==
    /\ perm.group_name = "developers"
    /\ ~BitSet(perm, "w", "*")
    /\ IsRightGranted(perm, entities, "bob", "w")
    /\ BitSet(perm, "r", "*")
    /\ ~IsRightGranted(perm, entities, "mallory", "r")

\* the rights an octal digit stands for
DigitGrants(d, right) ==
    CASE right = "r" -> d \in {4, 5, 6, 7}
      [] right = "w" -> d \in {2, 3, 6, 7}
      [] right = "x" -> d \in {1, 3, 5, 7}

\* the last operation was chmod with a three-digit octal int 0oABC
AfterThreeDigitChmod ==
    res.op = "chmod" /\ res.mode.kind = "int" /\ res.mode.value < 512

DigitA == res.mode.value \div 64
DigitB == (res.mode.value \div 8) % 8
DigitC == res.mode.value % 8

----------------------------------------------------------------------------
(* Vocabulary of the claims about the asset store *)

Prefix(components, i) == SubSeq(components, 1, i)
Parent(p) == SubSeq(p, 1, Len(p) - 1)

\* the permissions an entry carries itself, if any
OwnPermissions(tree, p) ==
    CASE tree[p].kind = "active" -> tree[p].perm
      [] tree[p].kind = "dir" /\ Append(p, "") \in DOMAIN tree -> tree[Append(p, "")].perm
      [] OTHER -> NoPermissions

RECURSIVE PermissionsInForce(_, _)
\* the effective permissions at an entry: the last non-null permissions seen
\* on the way down from the root
PermissionsInForce(tree, p) ==
    IF ~OwnPermissions(tree, p).null THEN OwnPermissions(tree, p)
    ELSE IF p = <<>> THEN NoPermissions
    ELSE PermissionsInForce(tree, Parent(p))

Holds(user, permissions, right) == IsRightGranted(permissions, entities, user, right)

\* some step of the descent along the components starts in a directory on
\* whose effective permissions the user lacks x
ExecuteDeniedOnDescent(user, components) ==
    \E i \in 1..Len(components) :
        /\ Prefix(components, i - 1) \in DOMAIN asset_tree
        /\ asset_tree[Prefix(components, i - 1)].kind = "dir"
        /\ ~Holds(user, PermissionsInForce(asset_tree, Prefix(components, i - 1)), "x")

\* the deepest entry that exists above the target key of a path
RECURSIVE DeepestExisting(_, _)
DeepestExisting(tree, p) ==
    IF p \in DOMAIN tree THEN p ELSE DeepestExisting(tree, Parent(p))

\* the owner recorded for an entry: of a directory and of an ActiveAsset the
\* owner in its permissions, of an asset id the owner in the stored asset's
AssetOwner(st, id) ==
    IF id \in DOMAIN st.assets /\ ~st.assets[id].permissions.null
    THEN st.assets[id].permissions.user_name ELSE None
EntryOwner(tree, st, p) ==
    CASE tree[p].kind = "id" -> AssetOwner(st, tree[p].id)
      [] tree[p].kind = "active" ->
            IF tree[p].perm.null THEN AssetOwner(st, tree[p].id) ELSE tree[p].perm.user_name
      [] OTHER -> PermissionsInForce(tree, p).user_name

\* the sticky bit t:* of a permissions record
StickySet(permissions) ==
    ~permissions.null /\ DictGet(permissions.permissions, Key("t", "*"), FALSE)

\* this step is a store() or mkdir() to a path of at least one component
WritesPath == res'.op \in {"store", "mkdir"} /\ Len(res'.path.components) > 0

\* this step is a store() or mkdir() onto an entry that exists, owned by
\* somebody, in a sticky directory the caller holds w on
WritesOntoStickyEntry ==
    /\ WritesPath
    /\ res'.path.components \in DOMAIN asset_tree
    /\ asset_tree[Parent(res'.path.components)].kind = "dir"
    /\ StickySet(PermissionsInForce(asset_tree, Parent(res'.path.components)))
    /\ Holds(res'.user, PermissionsInForce(asset_tree, Parent(res'.path.components)), "w")
    /\ EntryOwner(asset_tree, storage, res'.path.components) # None

----------------------------------------------------------------------------
(* Claims about the asset store *)

\* C1 (as stated): in a directory with the sticky bit t:* set, a store() or
\* mkdir() onto an existing entry by a user who holds w but is not the
\* entry's owner is refused with PermissionError and leaves the tree
\* unchanged; the owner's overwrite succeeds.
C1_AsStated ==
    [][WritesOntoStickyEntry =>
          IF res'.user = EntryOwner(asset_tree, storage, res'.path.components)
          THEN res'.outcome = "ok"
          ELSE res'.outcome = "PermissionError" /\ asset_tree' = asset_tree]_vars

\* C2: an acquire by path whose descent meets a directory on whose effective
\* permissions the caller lacks x yields the default; it returns an asset only
\* when x is held at every step.
C2_AcquireNeedsExecute ==
    res.op = "acquire" /\ ExecuteDeniedOnDescent(res.user, res.path.components)
        => res.outcome = "default" /\ res.asset = NoHandle

\* an asset is stored at the path acquired, x is denied on the way, and the
\* caller got the default
C2_Witness ==
    /\ res.op = "acquire"
    /\ Len(res.path.components) = 2
    /\ res.path.components \in DOMAIN asset_tree
    /\ asset_tree[res.path.components].kind \in {"id", "active"}
    /\ ExecuteDeniedOnDescent(res.user, res.path.components)
    /\ res.outcome = "default"

\* the caller holds w where store()/mkdir() writes first: on the effective
\* permissions of the deepest existing entry above the target key (the parent
\* directory, or the directory the first missing one is created in)
HoldsWriteAt(tree, user, components) ==
    Holds(user, PermissionsInForce(tree, DeepestExisting(tree, Parent(components))), "w")

\* C3 (as stated): store() and mkdir() change the tree only if the caller
\* holds w on the effective permissions of the directory written to (the
\* parent of the target key, or the directory a missing intermediate one is
\* created in); without it PermissionError is raised.
C3_AsStated ==
    [][WritesPath =>
          /\ asset_tree' # asset_tree
                => HoldsWriteAt(asset_tree, res'.user, res'.path.components)
          /\ ~HoldsWriteAt(asset_tree, res'.user, res'.path.components)
                => res'.outcome = "PermissionError"]_vars

\* C7 (as stated): every asset in the backend has an id of at least first_id,
\* and no two assets that entered store() without an id were given the same.
C7_AsStated ==
    /\ \A id \in DOMAIN storage.assets : id >= FirstId
    /\ \A i, j \in DOMAIN issued : i # j => issued[i] # issued[j]

\* the ActiveAsset entry above the path acquired, if there is one
MountPoints(components) ==
    {i \in 0..(Len(components) - 1) :
        /\ Prefix(components, i) \in DOMAIN asset_tree
        /\ asset_tree[Prefix(components, i)].kind = "active"}

ArgsOf(h) == objs[objs[h].action_args].items

\* C8: an acquire of P.extra1...extraN (N >= 1), with an ActiveAsset mounted
\* at P, by a caller who may descend to P and execute it, returns an asset
\* whose action_args hold _inner_get = [extra1, ..., extraN]; the action_args
\* of the mounted asset, in the cache and in the backend, have no _inner_get.
C8_InnerGet ==
    res.op = "acquire" =>
        \A i \in MountPoints(res.path.components) :
            LET P  == Prefix(res.path.components, i)
                id == asset_tree[P].id
            IN  /\ ( /\ ~ExecuteDeniedOnDescent(res.user, P)
                     /\ Holds(res.user, PermissionsInForce(asset_tree, P), "x") )
                       => res.outcome = "asset"
                /\ res.outcome = "asset" =>
                     /\ "_inner_get" \in DOMAIN ArgsOf(res.asset)
                     /\ ArgsOf(res.asset)["_inner_get"].components
                            = SubSeq(res.path.components, i + 1, Len(res.path.components))
                     /\ id \in DOMAIN asset_by_id_cache
                     /\ "_inner_get" \notin DOMAIN ArgsOf(asset_by_id_cache[id])
                     /\ "_inner_get" \notin DOMAIN storage.assets[id].action_args

\* an acquire two components below a mounted ActiveAsset returned an asset
C8_Witness ==
    /\ res.op = "acquire"
    /\ res.outcome = "asset"
    /\ \E i \in MountPoints(res.path.components) : Len(res.path.components) = i + 2
    /\ Len(ArgsOf(res.asset)["_inner_get"].components) = 2

\* the caller may descend to an ActiveAsset mounted above the path acquired
\* but lacks x on it
InnerAccessDenied(user, components) ==
    \E i \in MountPoints(components) :
        /\ ~ExecuteDeniedOnDescent(user, Prefix(components, i))
        /\ ~Holds(user, PermissionsInForce(asset_tree, Prefix(components, i)), "x")

\* there is no entry at the path acquired and no ActiveAsset above it
MissingEntry(components) ==
    components \notin DOMAIN asset_tree /\ MountPoints(components) = {}

\* C14 (as stated): acquire(context, path, default=d) with a d that is no
\* exception returns d, and does not raise, when the entry is missing, when
\* x is denied during traversal, and when x is denied on the inner access
\* of an ActiveAsset.
C14_AsStated ==
    ( /\ res.op = "acquire"
      /\ \/ MissingEntry(res.path.components)
         \/ ExecuteDeniedOnDescent(res.user, res.path.components)
         \/ InnerAccessDenied(res.user, res.path.components) )
        => res.outcome = "default"

\* an acquire below a mounted ActiveAsset the caller lacks x on has raised
\* PermissionError
C14_Witness ==
    /\ res.op = "acquire"
    /\ InnerAccessDenied(res.user, res.path.components)
    /\ res.outcome = "PermissionError"

\* C15: after any sequence of store, mkdir, remove, save and load the root
\* directory has a Permissions object at its empty-string key
C15_AsStated == RootPermissionsEntry.kind = "perm"

\* a store or mkdir went through on the path whose only component is ''
C15_Witness ==
    /\ res.op \in {"store", "mkdir"}
    /\ res.path = EmptyNamePath
    /\ res.outcome = "ok"

\* the names a listing gives, in the order it gives them
ListedNames == [i \in DOMAIN res.contents |-> res.contents[i].name]

StoredAtPath == res.op = "store" /\ res.path # NoPath /\ res.outcome = "ok"

\* the next call is an acquire of the stored path by the storing user
AcquiredBack ==
    /\ res'.op = "acquire"
    /\ res'.user = res.user
    /\ res'.path.components = res.path.components

\* C19: after a successful store to a path the asset is in the cache under
\* its id, and an acquire of the path by the same user returns an asset with
\* that id from the cache, for a bare id and for an ActiveAsset alike
C19_AsStated ==
    [][(StoredAtPath /\ AcquiredBack) =>
          /\ res.id \in DOMAIN asset_by_id_cache
          /\ res'.outcome = "asset"
          /\ objs'[res'.asset].local_id = res.id
          /\ res'.source = "cache"]_vars

\* an acquire had to read the asset from the storage
C19_Witness ==
    /\ res.op = "acquire"
    /\ res.outcome = "asset"
    /\ res.source = "storage"

----------------------------------------------------------------------------
(* Claims about update and clone *)

\* the right update() asks for: r without overrides, x with overrides
RequiredRight(kwargs) == IF kwargs = EmptyDict THEN "r" ELSE "x"

\* the caller of the update observed holds the right it needs on the asset
HoldsRequiredRight(observed) ==
    /\ ~objs[observed.asset].permissions.null
    /\ Holds(observed.user, objs[observed.asset].permissions, RequiredRight(observed.kwargs))

\* C4: with the basic strategy an update runs the action only if the caller
\* holds r (no overrides) or x (with overrides) on the asset's permissions;
\* without the right nothing is executed and the asset returned carries an
\* Error result.
C4_UpdateNeedsRight ==
    [][res'.op = "update" =>
          /\ executed' # executed => HoldsRequiredRight(res')
          /\ ~HoldsRequiredRight(res') =>
                /\ executed' = executed
                /\ objs'[res'.returned].build_result.kind = "Error"]_vars

\* an update with overrides by a caller who holds r but not x: refused
C4_Witness ==
    /\ res.op = "update"
    /\ res.kwargs # EmptyDict
    /\ ~objs[res.asset].permissions.null
    /\ Holds(res.user, objs[res.asset].permissions, "r")
    /\ ~Holds(res.user, objs[res.asset].permissions, "x")
    /\ res.status = "PermissionError"
    /\ objs[res.returned].build_result.kind = "Error"
    /\ executed = <<>>

\* what can be read through the containers of an asset, lists held in the
\* action_args included
ObservableItem(heap, v) ==
    IF v.t = "ref" THEN [t |-> "list", items |-> heap[v.h].items] ELSE v
Observable(heap, h) ==
    [action_args  |-> [k \in DOMAIN heap[heap[h].action_args].items |->
                          ObservableItem(heap, heap[heap[h].action_args].items[k])],
     meta         |-> heap[heap[h].meta].items,
     dependencies |-> heap[heap[h].dependencies].items,
     asset_help   |-> IF heap[h].asset_help = NoHandle THEN EmptyDict
                      ELSE heap[heap[h].asset_help].items]

\* C9 (as stated): no mutation of the original's containers after clone(),
\* that of a value nested inside action_args included, changes what is read
\* through the clone's containers.
C9_AsStated ==
    [][res'.op = "mutate" =>
          \A i \in DOMAIN clones :
              clones[i].orig = res'.asset
                  => Observable(objs', clones[i].clone) = Observable(objs, clones[i].clone)]_vars

\* C10 (as stated): an update of A, whose action refers to B, whose action
\* refers to C, by a caller holding the right it needs, executes with C's
\* arguments overridden by B's, then A's, then the caller's.
C10_AsStated ==
    [][res'.op = "update" /\ res'.asset = AssetA /\ HoldsRequiredRight(res') =>
          /\ Len(executed') = Len(executed) + 1
          /\ executed'[Len(executed')].args =
                 DictUpdate(DictUpdate(DictUpdate(ArgsOf(AssetC), ArgsOf(AssetB)),
                                       ArgsOf(AssetA)), res'.kwargs)]_vars

----------------------------------------------------------------------------
(* Claims about building assets *)

\* the update just made was update(X) by the owner of an X with updater
\* 'make', while neither X nor its dependency Y had been built
MakeUpdateOfUnbuilt ==
    /\ res'.op = "update" /\ res'.asset = AssetX /\ res'.user = "alice"
    /\ objs[AssetX].updater = "make"
    /\ ~objs[AssetX].permissions.null
    /\ objs[AssetX].build_result = NoResult
    /\ objs[AssetY].build_result = NoResult

\* C11: with updater 'make', update(X) on a never built X with the never
\* built dependency Y executes Y's action, then X's own action, and X ends
\* with a captured result.
C11_AsStated ==
    [][MakeUpdateOfUnbuilt =>
        /\ Len(executed') = Len(executed) + 2
        /\ objs'[executed'[Len(executed) + 1].on].action = objs[AssetY].action
        /\ objs'[executed'[Len(executed) + 2].on].action = objs[AssetX].action
        /\ objs'[AssetX].build_result # NoResult]_vars

\* what the three hooks of the action of the asset just updated hand back
HooksOfUpdated == objs[res'.asset].action

\* the build result of the asset update() returned
CapturedResult == objs'[res'.returned].build_result

\* execute() of the asset just updated was reached and no hook replaced or
\* dropped what it returned
ExecuteReturned(value) ==
    /\ res'.op = "update" /\ res'.status = "ok"
    /\ objs[res'.asset].action.name = "HookedAction"
    /\ HooksOfUpdated.pre_execute = NoResult
    /\ HooksOfUpdated.execute = value
    /\ HooksOfUpdated.post_execute = NoResult

\* a hook of the asset just updated raised
HookRaised ==
    /\ res'.op = "update" /\ res'.status = "ok"
    /\ objs[res'.asset].action.name = "HookedAction"
    /\ \/ HooksOfUpdated.pre_execute.kind = "raise"
       \/ HooksOfUpdated.execute.kind = "raise"
       \/ HooksOfUpdated.execute.kind # "raise" /\ HooksOfUpdated.post_execute.kind = "raise"

----------------------------------------------------------------------------
(* Claims about the dispatcher *)

\* the argument a call supplies for the parameter at position i
IsSupplied(signature, call, i) ==
    i <= Len(call.args) \/ signature[i].name \in KeywordNames(call)
SuppliedValue(signature, call, i) ==
    IF i <= Len(call.args) THEN call.args[i]
    ELSE (CHOOSE k \in {call.kwargs[j] : j \in DOMAIN call.kwargs} :
              k.name = signature[i].name).value

\* a variant matches a call: the arguments fit the declared parameters by
\* count and name, every annotated parameter is given a value of its type,
\* and every predicate holds for the value given (an optional one may go
\* without a value)
Matches(v, call) ==
    /\ ArgumentsBind(v.signature, call)
    /\ \A i \in DOMAIN v.signature :
          IsSupplied(v.signature, call, i) /\ v.signature[i].kind # "VAR_KEYWORD" =>
            /\ v.signature[i].annotation # "empty" =>
                  IsA(v.signature[i].annotation, SuppliedValue(v.signature, call, i))
            /\ v.signature[i].name \in DOMAIN v.precondition =>
                  PredicateMatches(v.precondition[v.signature[i].name],
                                   SuppliedValue(v.signature, call, i)) = "True"
    /\ \A i \in DOMAIN v.signature :
          ~IsSupplied(v.signature, call, i) /\ v.signature[i].name \in DOMAIN v.precondition =>
            IsOptionalPredicate(v.precondition[v.signature[i].name])

MatchingVariants(call) == {i \in DOMAIN variants : Matches(variants[i], call)}

\* C12: a dispatched call runs exactly the first variant, in registration
\* order, that matches the call; when no variant matches, the dispatcher
\* raises its TypeError and runs none.
C12_AsStated ==
    res.op = "dispatch" =>
        LET m == MatchingVariants(res.call)
        IN  IF m = {}
            THEN res.out = Dispatched(0, FALSE, "TypeError: No variant")
            ELSE res.out = Dispatched(CHOOSE i \in m : \A k \in m : i <= k, TRUE, "none")

----------------------------------------------------------------------------
(* Claims about threads *)

\* what the mutators and update() change of X: its action, arguments,
\* permissions, result, meta and dependencies
AssetState(heap) ==
    [action |-> heap[AssetX].action,
     action_args |-> heap[heap[AssetX].action_args].items,
     permissions |-> heap[AssetX].permissions,
     build_result |-> heap[AssetX].build_result,
     meta |-> heap[heap[AssetX].meta].items,
     dependencies |-> heap[heap[AssetX].dependencies].items]

\* C18: while a thread is inside update() of X, no step of another thread
\* changes X's action, arguments, permissions, result, meta or dependencies
C18_AsStated ==
    [][(threads.lock # "free" /\ res'.thread # threads.lock) =>
          AssetState(objs') = AssetState(objs)]_vars

\* set_permissions returned in one thread while another was inside update()
C18_Witness ==
    /\ res.op = "set_permissions"
    /\ threads.lock \notin {"free", res.thread}

\* a store() of the thread returned without raising
StoreReturned(t) == threads[t].pc = "outside" /\ threads[t].outcome = "ok"

\* the paths of the tree before a step are paths of the tree after it
TreeEntriesKept == \A p \in DOMAIN asset_tree : p \in DOMAIN asset_tree'

\* C17: the ids store() hands out are all different, no step of a store()
\* takes an entry out of the tree, and of every store() that returned the
\* asset is the one the cache holds under its id
C17_AsStated ==
    [][/\ \A i, j \in DOMAIN issued' : i # j => issued'[i] # issued'[j]
       /\ res'.op = "store" => TreeEntriesKept
       /\ \A t \in Threads :
             (StoreReturned(t) /\ threads[t].cached) =>
                 /\ threads[t].result \in DOMAIN asset_by_id_cache'
                 /\ asset_by_id_cache'[threads[t].result] = threads[t].asset]_vars

\* both threads returned from a store() with ids of their own, each after
\* making the directory, and the path one of them stored to is not in the
\* tree
C17_Witness ==
    /\ \A t \in Threads : StoreReturned(t) /\ threads[t].created
    /\ \A i, j \in DOMAIN issued : i # j => issued[i] # issued[j]
    /\ \E t \in Threads : threads[t].path.components \notin DOMAIN asset_tree

----------------------------------------------------------------------------
(* Claims about CallResults *)

\* what func handed back, seen as a CallResult: an Error for an exception
\* raised or returned, an ErrorResult as it is, a ValidResult as it is and
\* never nested, any other value inside a Valid
AsCallResult(outcome, result) ==
    CASE outcome.kind \in {"raise", "exception"} ->
             result.kind = "Error" /\ result.exception = outcome.name
      [] outcome.kind = "Error" -> result = outcome
      [] outcome.kind = "Valid" -> result = outcome /\ result.value.kind # "Valid"
      [] OTHER -> result = [kind |-> "Valid", value |-> outcome]

\* C20: then on an Error returns it and calls nothing, then on Valid(v)
\* returns func(v) as a CallResult; on_error on a Valid returns it and calls
\* nothing, on_error on an Error calls func with the Error
C20_Laws ==
    /\ res.op = "then" =>
          IF res.r.kind = "Error" THEN res.result = res.r /\ res.calls = <<>>
          ELSE /\ res.calls = <<res.r.value>>
               /\ AsCallResult(Apply(res.func, res.r.value), res.result)
    /\ res.op = "on_error" =>
          IF res.r.kind = "Error"
          THEN res.calls = <<res.r>> /\ AsCallResult(Apply(res.func, res.r), res.result)
          ELSE res.result = res.r /\ res.calls = <<>>

\* then on a Valid whose func handed back an ErrorResult, after a then that
\* flattened the ValidResult its func handed back
C20_Witness ==
    /\ res.op = "then"
    /\ res.r = ValidResult(Plain("other"))
    /\ res.func = Returning(ErrorResult("IndexError"))
    /\ res.result = ErrorResult("IndexError")

----------------------------------------------------------------------------
(* lib/store/update_context.py: the identity stack of an UpdateContext     *)

\* push_identity, pop_identity and copy calls a behaviour performs
MaxIdentityOps == 4

\* UpdateContext objects a behaviour holds
MaxContexts == 2

\* an UpdateContext: the dict entries 'user', 'group' and 'identity'
UpdateContextObject(user, group, identity) ==
    [kind |-> "UpdateContext", user |-> user, group |-> group, identity |-> identity]

\* UpdateContext.__init__: self['identity'] = [(self['user'], self['group'])]
NewUpdateContext(user, group) == UpdateContextObject(user, group, <<<<user, group>>>>)

\* UpdateContext.copy: UpdateContext(**self); the 'identity' handed over
\* with the keywords is replaced by __init__
CopyContext(c) == NewUpdateContext(c.user, c.group)

\* UpdateContext.push_identity
PushIdentity(c, user, group) == [c EXCEPT !.identity = Append(@, <<user, group>>)]

\* what pop_identity answers: the frame popped or the exception raised
Popped(c, frame) == [context |-> c, raised |-> FALSE, frame |-> frame]
PopRaised(c) == [context |-> c, raised |-> TRUE, frame |-> <<None, None>>]

\* a test that lets the base frame go
MayPopBase(idents) == Len(idents) > 0

\* the test of pop_identity: len(idents) > 1
MayPop(idents) == Len(idents) > 1

\* UpdateContext.pop_identity
PopIdentity(c) ==
    IF MayPop(c.identity)
    THEN Popped([c EXCEPT !.identity = SubSeq(@, 1, Len(@) - 1)], c.identity[Len(c.identity)])
    ELSE PopRaised(c)

\* UpdateContext.get_user: self.get('identity')[-1][0]
GetUser(c) == c.identity[Len(c.identity)][1]

\* UpdateContext.get_group: self.get('identity')[-1][1]
GetGroup(c) == c.identity[Len(c.identity)][2]

\* UpdateContext.get_real_user, get_real_group
GetRealUser(c) == c.user
GetRealGroup(c) == c.group

\* the handles of the contexts
ContextHandles == 1..MaxContexts

\* context.push_identity(user, group) on the context at h
PushIdentityCall(h, id) ==
    /\ steps < MaxIdentityOps
    /\ h \in DOMAIN objs
    /\ steps' = steps + 1
    /\ objs' = [objs EXCEPT ![h] = PushIdentity(@, id.user, id.group)]
    /\ res' = [op |-> "push_identity", h |-> h, raised |-> FALSE, frame |-> <<id.user, id.group>>]
    /\ UNCHANGED <<variants, threads, entities, perm, asset_tree, next_asset_id,
                   asset_by_id_cache, storage, issued, clones, executed>>

\* context.pop_identity() on the context at h
PopIdentityCall(h) ==
    /\ steps < MaxIdentityOps
    /\ h \in DOMAIN objs
    /\ LET pop == PopIdentity(objs[h])
       IN  /\ objs' = [objs EXCEPT ![h] = pop.context]
           /\ res' = [op |-> "pop_identity", h |-> h, raised |-> pop.raised, frame |-> pop.frame]
    /\ steps' = steps + 1
    /\ UNCHANGED <<variants, threads, entities, perm, asset_tree, next_asset_id,
                   asset_by_id_cache, storage, issued, clones, executed>>

\* context.copy() of the context at h
CopyContextCall(h) ==
    /\ steps < MaxIdentityOps
    /\ h \in DOMAIN objs
    /\ Len(objs) < MaxContexts
    /\ steps' = steps + 1
    /\ objs' = Alloc(objs, CopyContext(objs[h]))
    /\ res' = [op |-> "copy", h |-> Len(objs) + 1, raised |-> FALSE, frame |-> <<None, None>>]
    /\ UNCHANGED <<variants, threads, entities, perm, asset_tree, next_asset_id,
                   asset_by_id_cache, storage, issued, clones, executed>>

\* UpdateContext(store=..., user_registry=..., user=u, group=g)
InitContext ==
    /\ entities = MakeUserRegistry
    /\ perm = DefaultRootPermissions
    /\ \E id \in Contexts : objs = <<NewUpdateContext(id.user, id.group)>>
    /\ asset_tree = EmptyRoot
    /\ asset_by_id_cache = EmptyDict
    /\ next_asset_id = FirstId
    /\ storage = EmptyStorage
    /\ issued = <<>>
    /\ clones = <<>>
    /\ executed = <<>>
    /\ steps = 0
    /\ variants = <<>>
    /\ threads = <<>>
    /\ res = [op |-> "init", h |-> 1, raised |-> FALSE, frame |-> <<None, None>>]

NextContext ==
    \/ \E h \in ContextHandles, id \in Contexts : PushIdentityCall(h, id)
    \/ \E h \in ContextHandles : PopIdentityCall(h)
    \/ \E h \in ContextHandles : CopyContextCall(h)

SpecContext == InitContext /\ [][NextContext]_vars

----------------------------------------------------------------------------
(* Claims about the UpdateContext *)

\* C21: after any push_identity and pop_identity calls the identity stack of
\* a context is non-empty, its bottom frame is the (user, group) the context
\* was made with, which no call changes, get_user() and get_group() are the
\* components of the top frame, and a pop_identity on a stack of the base
\* frame alone raises and leaves the stack as it was
C21_IdentityStack ==
    [][/\ \A h \in DOMAIN objs' :
             LET c == objs'[h]
             IN  /\ Len(c.identity) >= 1
                 /\ c.identity[1] = <<GetRealUser(c), GetRealGroup(c)>>
                 /\ <<GetUser(c), GetGroup(c)>> = c.identity[Len(c.identity)]
       /\ \A h \in DOMAIN objs :
             /\ GetRealUser(objs'[h]) = GetRealUser(objs[h])
             /\ GetRealGroup(objs'[h]) = GetRealGroup(objs[h])
       /\ (res'.op = "pop_identity" /\ Len(objs[res'.h].identity) = 1) =>
             (res'.raised /\ objs' = objs)
       /\ (res'.op = "pop_identity" /\ Len(objs[res'.h].identity) > 1) =>
             (~res'.raised /\ res'.frame = objs[res'.h].identity[Len(objs[res'.h].identity)])]_vars

\* a pop_identity on a stack of the base frame alone raised, after frames
\* had been pushed and popped
C21_Witness ==
    /\ res.op = "pop_identity"
    /\ res.raised
    /\ steps >= 3
    /\ Len(objs[res.h].identity) = 1

----------------------------------------------------------------------------
(* lib/store/user_registry.py: the calls that change a registry            *)

\* calls on the registry a behaviour performs
MaxRegistryOps == 4

RECURSIVE FirstEqualLayer(_, _, _, _)
\* the index list.remove(layer) finds: the first layer that is the layer
\* given or a mapping equal to it, 0 if there is none
FirstEqualLayer(reg, layers, layer_name, i) ==
    IF i > Len(layers) THEN 0
    ELSE IF layers[i] = layer_name \/ reg[layers[i]].credentials = reg[layer_name].credentials
         THEN i
         ELSE FirstEqualLayer(reg, layers, layer_name, i + 1)

\* a sequence without its i-th element
WithoutIndex(s, i) == SubSeq(s, 1, i - 1) \o SubSeq(s, i + 1, Len(s))

RECURSIVE FirstIndexOf(_, _, _)
\* the index of the first element equal to x, 0 if there is none
FirstIndexOf(s, x, i) ==
    IF i > Len(s) THEN 0 ELSE IF s[i] = x THEN i ELSE FirstIndexOf(s, x, i + 1)

\* UserRegistry.remove_layer_from_entity -> Entity.remove_layer ->
\* LayeredDict.remove_layer: answers True, False for an unknown name, or
\* raises ValueError when the layer is not among the layers
RemoveLayerFromEntity(reg, name, layer_name) ==
    IF name \notin DOMAIN reg \/ layer_name \notin DOMAIN reg
    THEN [reg |-> reg, outcome |-> "False"]
    ELSE LET e  == reg[name]
             at == FirstEqualLayer(reg, e.layers, layer_name, 1)
             n  == FirstIndexOf(e.inherits, layer_name, 1)
             e1 == [e EXCEPT !.layers = WithoutIndex(@, at)]
             e2 == [e1 EXCEPT !.credentials = UpdateMergedLayers(reg, e1),
                              !.inherits = IF n = 0 THEN @ ELSE WithoutIndex(@, n)]
         IN  IF at = 0 THEN [reg |-> reg, outcome |-> "ValueError"]
             ELSE [reg |-> [reg EXCEPT ![name] = e2], outcome |-> "True"]

\* the names the calls are made with
RegistryNames == {"team", "bob", "*"}

\* the names entities are made of
NewNames == {"team", "bob"}

\* the rights granted and revoked: one of the core rights and one more
GrantedRights == {"r", "admin"}

\* the variables no call on the registry touches
notRegistryVars == <<variants, threads, perm, objs, asset_tree, next_asset_id,
                     asset_by_id_cache, storage, issued, clones, executed>>

\* registry.make_entity(name)
RegistryMakeEntity(name) ==
    /\ steps < MaxRegistryOps
    /\ steps' = steps + 1
    /\ entities' = MakeEntity(entities, name)
    /\ res' = [op |-> "make_entity", name |-> name, other |-> None,
               outcome |-> IF name \in DOMAIN entities THEN "None" ELSE "entity"]
    /\ UNCHANGED notRegistryVars

\* registry.add_layer_to_entity(name, layer_name)
RegistryAddLayer(name, layer_name) ==
    /\ steps < MaxRegistryOps
    /\ steps' = steps + 1
    /\ entities' = AddLayerToEntity(entities, name, layer_name)
    /\ res' = [op |-> "add_layer_to_entity", name |-> name, other |-> layer_name,
               outcome |-> IF name \in DOMAIN entities /\ layer_name \in DOMAIN entities
                           THEN "True" ELSE "False"]
    /\ UNCHANGED notRegistryVars

\* registry.remove_layer_from_entity(name, layer_name)
RegistryRemoveLayer(name, layer_name) ==
    LET removed == RemoveLayerFromEntity(entities, name, layer_name)
    IN  /\ steps < MaxRegistryOps
        /\ steps' = steps + 1
        /\ entities' = removed.reg
        /\ res' = [op |-> "remove_layer_from_entity", name |-> name, other |-> layer_name,
                   outcome |-> removed.outcome]
        /\ UNCHANGED notRegistryVars

\* registry.grant_right(name, right)
RegistryGrantRight(name, right) ==
    /\ steps < MaxRegistryOps
    /\ steps' = steps + 1
    /\ entities' = SetCredential(entities, name, right, TRUE)
    /\ res' = [op |-> "grant_right", name |-> name, other |-> right,
               outcome |-> IF name \in DOMAIN entities THEN "True" ELSE "False"]
    /\ UNCHANGED notRegistryVars

\* registry.revoke_right(name, right)
RegistryRevokeRight(name, right) ==
    /\ steps < MaxRegistryOps
    /\ steps' = steps + 1
    /\ entities' = SetCredential(entities, name, right, FALSE)
    /\ res' = [op |-> "revoke_right", name |-> name, other |-> right,
               outcome |-> IF name \in DOMAIN entities THEN "True" ELSE "False"]
    /\ UNCHANGED notRegistryVars

\* UserRegistry()
InitRegistry ==
    /\ entities = EmptyRegistry
    /\ perm = DefaultRootPermissions
    /\ StoreConstructed
    /\ variants = <<>>
    /\ threads = <<>>
    /\ res = [op |-> "init", name |-> None, other |-> None, outcome |-> "None"]

NextRegistry ==
    \/ \E n \in NewNames : RegistryMakeEntity(n)
    \/ \E n \in RegistryNames, l \in RegistryNames : RegistryAddLayer(n, l)
    \/ \E n \in RegistryNames, l \in RegistryNames : RegistryRemoveLayer(n, l)
    \/ \E n \in RegistryNames, r \in GrantedRights : RegistryGrantRight(n, r)
    \/ \E n \in RegistryNames, r \in GrantedRights : RegistryRevokeRight(n, r)

SpecRegistry == InitRegistry /\ [][NextRegistry]_vars

----------------------------------------------------------------------------
(* Claims about the registry *)

\* the entity's own credentials laid over the merged views its parents have now
Rematerialized(reg, name) == UpdateMergedLayers(reg, reg[name])

\* C22: after any make_entity, add_layer_to_entity, remove_layer_from_entity,
\* grant_right and revoke_right calls the merged view of every entity is its
\* own credentials laid over the merged views its parents have now
C22_AsStated ==
    \A name \in DOMAIN entities : entities[name].credentials = Rematerialized(entities, name)

\* bob inherits from team, team holds a key that bob does not define, with a
\* value other than the one in bob's merged view, or a key bob's view lacks
C22_Witness ==
    /\ {"bob", "team"} \subseteq DOMAIN entities
    /\ \E i \in DOMAIN entities["bob"].layers : entities["bob"].layers[i] = "team"
    /\ res.op \in {"grant_right", "revoke_right"}
    /\ res.name = "team"
    /\ \E k \in DOMAIN entities["team"].credentials :
          /\ k \notin DOMAIN entities["bob"].current
          /\ \/ k \notin DOMAIN entities["bob"].credentials
             \/ entities["bob"].credentials[k] # entities["team"].credentials[k]

----------------------------------------------------------------------------
(* lib/path_op.py: path_set and path_get on JSON structures                *)
(*                                                                         *)
(* A structure is a dict (a function from names), a list (a sequence), a   *)
(* string or None.  A path is a sequence of components, StrKey(name) or    *)
(* IntKey(index), as TreePath holds them.                                  *)

\* path_set and path_get calls a behaviour performs
MaxPathOps == 2

\* components of the paths set
MaxPathLen == 2

JsonDict(d) == [t |-> "dict", d |-> d]
JsonList(l) == [t |-> "list", l |-> l]
JsonStr(s) == [t |-> "str", s |-> s]
JsonNone == [t |-> "None"]

\* isinstance(node, MutableMapping), isinstance(node, MutableSequence)
IsMapping(node) == node.t = "dict"
IsSequence(node) == node.t = "list"

\* what path_set leaves of a node, and the exception it raised, if any
SetDone(node) == [node |-> node, raised |-> "none"]
SetRaised(node, exception) == [node |-> node, raised |-> exception]

\* current.extend([None] * (idx - len(current) + 1)) when idx >= len(current)
Extended(l, idx) ==
    IF idx >= Len(l) THEN l \o [k \in 1..(idx - Len(l) + 1) |-> JsonNone] ELSE l

\* the position list[idx] reads and writes, counted from 1: a negative
\* index counts from the end; 0 where Python raises IndexError
ListPosition(l, idx) ==
    IF idx >= 0 THEN (IF idx < Len(l) THEN idx + 1 ELSE 0)
    ELSE (IF Len(l) + idx >= 0 THEN Len(l) + idx + 1 ELSE 0)

\* _default_default_getter for an intermediate container: {} before a name,
\* [] before an index
NewContainer(next_step) ==
    IF next_step.kind = "str" THEN JsonDict(<<>>) ELSE JsonList(<<>>)

\* the test that keeps the container found at a step: a mapping before a
\* name, a sequence before an index
Fits(node, next_step) ==
    IF next_step.kind = "str" THEN IsMapping(node) ELSE IsSequence(node)

RECURSIVE PathSetFrom(_, _, _)
\* the loop of path_set from `current` over the components left
PathSetFrom(current, components, value) ==
    LET step    == Head(components)
        is_last == Len(components) = 1
        next    == components[2]
    IN  IF step.kind = "str"
        THEN \* _handle_mapping_step
             IF ~IsMapping(current) THEN SetRaised(current, "TypeError")
             ELSE IF is_last THEN SetDone(JsonDict(DictSet(current.d, step.s, value)))
             ELSE LET child == IF step.s \in DOMAIN current.d /\ Fits(current.d[step.s], next)
                               THEN current.d[step.s]
                               ELSE NewContainer(next)
                      below == PathSetFrom(child, Tail(components), value)
                  IN  [node |-> JsonDict(DictSet(current.d, step.s, below.node)),
                       raised |-> below.raised]
        ELSE \* _handle_sequence_step
             IF ~IsSequence(current) THEN SetRaised(current, "TypeError")
             ELSE LET l  == Extended(current.l, step.i)
                      at == ListPosition(l, step.i)
                  IN  IF at = 0 THEN SetRaised(JsonList(l), "IndexError")
                      ELSE IF is_last THEN SetDone(JsonList([l EXCEPT ![at] = value]))
                      ELSE LET child == IF Fits(l[at], next) THEN l[at] ELSE NewContainer(next)
                               below == PathSetFrom(child, Tail(components), value)
                           IN  [node |-> JsonList([l EXCEPT ![at] = below.node]),
                                raised |-> below.raised]

\* path_set(root, path, value): the root it leaves and the exception raised
PathSet(root, components, value) ==
    IF components = <<>> THEN SetRaised(root, "KeyError")
    ELSE PathSetFrom(root, components, value)

\* the index test of path_get: step < 0 or step >= len(current) misses
InRangeOfList(l, i) == i >= 0 /\ i < Len(l)

RECURSIVE PathGet(_, _, _)
\* path_get(root, path, default) for a default that is no exception
PathGet(current, components, default) ==
    IF components = <<>> THEN current
    ELSE LET step == Head(components)
         IN  IF step.kind = "str"
             THEN IF ~IsMapping(current) \/ step.s \notin DOMAIN current.d THEN default
                  ELSE PathGet(current.d[step.s], Tail(components), default)
             ELSE IF ~IsSequence(current) \/ ~InRangeOfList(current.l, step.i) THEN default
                  ELSE PathGet(current.l[ListPosition(current.l, step.i)], Tail(components),
                               default)

\* the components of the paths: two names, the indices 0 and 1, and -1
PathComponents == {StrKey("a"), StrKey("b"), IntKey(0), IntKey(1), IntKey(-1)}

RECURSIVE PathsOfLength(_)
PathsOfLength(n) ==
    IF n = 0 THEN {<<>>}
    ELSE {Append(p, c) : p \in PathsOfLength(n - 1), c \in PathComponents}

\* the paths set: the empty path and the paths of up to MaxPathLen components
SetPaths == UNION {PathsOfLength(n) : n \in 0..MaxPathLen}

\* the values set
SetValues == {JsonStr("v"), JsonNone, JsonDict(<<>>)}

\* the structures to start from
Roots ==
    {JsonDict(<<>>), JsonList(<<>>),
     JsonDict([k \in {"a"} |-> JsonList(<<JsonStr("x"), JsonStr("y")>>)]),
     JsonList(<<JsonStr("x"), JsonDict([k \in {"a"} |-> JsonStr("y")])>>)}

\* path_set(root, path, value), root the structure at objs[1]
PathSetCall(components, value) ==
    LET set == PathSet(objs[1], components, value)
    IN  /\ steps < MaxPathOps
        /\ res.op # "path_set"
        /\ steps' = steps + 1
        /\ objs' = <<set.node>>
        /\ res' = [op |-> "path_set", path |-> components, value |-> value,
                   raised |-> set.raised, got |-> JsonNone]
        /\ UNCHANGED <<variants, threads, entities, perm, asset_tree, next_asset_id,
                       asset_by_id_cache, storage, issued, clones, executed>>

\* path_get(root, path) with the path of the path_set before it
PathGetCall ==
    /\ steps < MaxPathOps
    /\ res.op = "path_set"
    /\ steps' = steps + 1
    /\ res' = [op |-> "path_get", path |-> res.path, value |-> res.value,
               raised |-> res.raised, got |-> PathGet(objs[1], res.path, JsonNone)]
    /\ UNCHANGED <<variants, threads, entities, perm, objs, asset_tree, next_asset_id,
                   asset_by_id_cache, storage, issued, clones, executed>>

InitPath ==
    /\ entities = MakeUserRegistry
    /\ perm = DefaultRootPermissions
    /\ \E root \in Roots : objs = <<root>>
    /\ asset_tree = EmptyRoot
    /\ asset_by_id_cache = EmptyDict
    /\ next_asset_id = FirstId
    /\ storage = EmptyStorage
    /\ issued = <<>>
    /\ clones = <<>>
    /\ executed = <<>>
    /\ steps = 0
    /\ variants = <<>>
    /\ threads = <<>>
    /\ res = [op |-> "init", path |-> <<>>, value |-> JsonNone, raised |-> "none",
              got |-> JsonNone]

NextPath ==
    \/ \E p \in SetPaths, v \in SetValues : PathSetCall(p, v)
    \/ PathGetCall

SpecPath == InitPath /\ [][NextPath]_vars

----------------------------------------------------------------------------
(* Claims about path_set and path_get *)

\* a path_get that follows a path_set which did not raise
GetAfterSet == res.op = "path_get" /\ res.raised = "none"

\* an index below 0 among the components
HasNegativeIndex(components) ==
    \E i \in DOMAIN components : components[i].kind = "int" /\ components[i].i < 0

\* C23: when path_set(root, path, value) completes without raising, a
\* following path_get(root, path) returns value
C23_AsStated == GetAfterSet => res.got = res.value

\* a path_get after a path_set through an index counted from the end
C23_Witness == GetAfterSet /\ HasNegativeIndex(res.path) /\ Len(res.path) = 2

----------------------------------------------------------------------------
(* Claims about permission records *)

\* the record holds r, w and x for the name, all true
HoldsAll(p, name) ==
    \A right \in Rights :
        Key(right, name) \in DOMAIN p.permissions /\ p.permissions[Key(right, name)]

\* perm was made by make_permission without a mode
MadeWithoutMode == res.op = "make_permission" /\ res.mode = NoMode

\* C24: a record made by make_permission without a mode holds r, w and x,
\* all true, for the owner, for the group when one is given, and for
\* others ('*'); without a group it holds no keys of any other name
C24_AsStated ==
    MadeWithoutMode =>
        /\ HoldsAll(perm, perm.user_name)
        /\ perm.group_name # None => HoldsAll(perm, perm.group_name)
        /\ HoldsAll(perm, "*")
        /\ perm.group_name = None =>
              \A k \in DOMAIN perm.permissions : k[2] \in {perm.user_name, "*"}

\* a record made for alice without group and without mode
C24_Witness ==
    /\ MadeWithoutMode
    /\ perm.user_name = "alice"
    /\ perm.group_name = None
    /\ HoldsAll(perm, "alice")

----------------------------------------------------------------------------
(* lib/store/actions/read_dir.py, and the store as main() of               *)
(* asset_store.py sets it up: a directory 'tmp' made with mode '1775' and  *)
(* Asset(ReadDir()) stored at 'bin.ls'.  The calls come in any order and   *)
(* from any of three callers; the claims pick the states they speak of.    *)

\* the listing read_directory returned, as the value of an action
ListingValue(read) == [kind |-> "listing", contents |-> read.contents]

\* ReadDir._execute for the arguments 'path' or none: a str becomes a
\* TreePath, no path is the root, and the TreePath goes to
\* context.store.read_directory
ExecuteReadDir(reg, ctx, tree, action_args) ==
    LET path == IF "path" \in DOMAIN action_args THEN action_args["path"].components
                ELSE <<>>
        read == ReadDirectory(reg, ctx, tree, PathArg("TreePath", path))
    IN  IF read.outcome = "ok" THEN ListingValue(read) ELSE Raise(read.outcome)

\* Asset.update(context, **kwargs) of an asset of a store: where the
\* strategy executed ReadDir, the result is what ReadDir read from the tree
UpdateInStore(reg, ctx, heap, tree, h, kwargs) ==
    LET u      == AssetUpdate(reg, ctx, heap, h, kwargs, TRUE)
        result == ExecuteReadDir(reg, ctx, tree, u.args)
        build  == IF result.kind = "raise" THEN ErrorResult(result.name)
                  ELSE Captured(result)
    IN  IF u.ran /\ u.objs[u.on].action = Action("ReadDir")
        THEN [u EXCEPT !.objs[u.on].build_result = build]
        ELSE u

\* the callers: root of system, bob of team, and charly, member of no group
ScenarioContexts == {Context("root", "system"), Context("bob", "team"),
                     Context("charly", "charly")}

\* 'bin.ls', 'tmp' and 'bin' as dotted strings
BinLs == PathArg("str", <<"bin", "ls">>)
ScenarioStorePaths == {BinLs}
ScenarioMkdirPaths == {PathArg("str", <<"tmp">>)}
ScenarioAcquirePaths == {BinLs, PathArg("str", <<"tmp">>), PathArg("str", <<"bin">>),
                         PathArg("TreePath", <<"tmp">>)}

\* the modes: '1775' for the directory, 0o754 and 0o755 for the asset
ScenarioMkdirModes == {StrMode(<<1, 7, 7, 5>>)}
ScenarioStoreModes == {IntMode(492), IntMode(493)}

\* update(context) and update(context, path='')
PathOverride == [k \in {"path"} |-> PathStrValue(<<>>)]
ScenarioKwargs == {EmptyDict, PathOverride}

\* store.store(context, Asset(ReadDir()), path, mode=mode)
StoreReadDirCall(ctx, path, mode) ==
    LET made == NewAsset(objs, Action("ReadDir"), NoHandle, NoPermissions, -1)
        h    == Len(made)
        id   == next_asset_id
        heap == [made EXCEPT ![h].local_id = id,
                             ![h].permissions = PermissionsFromMode(entities, ctx, mode)]
        set  == SetNode(entities, ctx, asset_tree, path.components, IdValue(id))
    IN  /\ steps < MaxSteps
        /\ steps' = steps + 1
        /\ objs' = heap
        /\ next_asset_id' = next_asset_id + 1
        /\ issued' = Append(issued, id)
        /\ storage' = StorageSave(storage, heap, h)
        /\ asset_tree' = set.tree
        /\ asset_by_id_cache' =
               IF set.status = "ok" THEN DictSet(asset_by_id_cache, id, h)
               ELSE asset_by_id_cache
        /\ res' = [op |-> "store", user |-> ctx.user, path |-> path, mode |-> mode,
                   outcome |-> set.status, asset |-> h, id |-> id, active |-> FALSE]
        /\ UNCHANGED <<variants, threads, entities, perm, clones, executed>>

\* what the caller is left with when acquire handed back no asset
NotUpdated(heap) == Updated(heap, "AttributeError", NoHandle, FALSE, NoHandle, EmptyDict)

\* store.acquire(context, path).update(context, **kwargs); acquire hands
\* back None for a path it does not find, and None has no update
AcquireUpdateCall(ctx, path, kwargs) ==
    \E got \in {Acquire(entities, ctx, objs, asset_tree, asset_by_id_cache, storage, path)} :
    \E u \in {IF got.outcome = "asset"
              THEN UpdateInStore(entities, ctx, got.objs, asset_tree, got.asset, kwargs)
              ELSE NotUpdated(got.objs)} :
        /\ steps < MaxSteps
        /\ steps' = steps + 1
        /\ objs' = u.objs
        /\ asset_by_id_cache' = got.cache
        /\ res' = [op |-> "acquire update", user |-> ctx.user, path |-> path,
                   kwargs |-> kwargs, outcome |-> got.outcome, asset |-> got.asset,
                   source |-> got.source,
                   bound_to |-> IF got.outcome = "asset" THEN got.objs[got.asset].action
                                ELSE Action("None"),
                   bound_args |-> IF got.outcome = "asset"
                                  THEN got.objs[got.objs[got.asset].action_args].items
                                  ELSE EmptyDict,
                   returned |-> u.returned,
                   result |-> IF got.outcome = "asset" THEN u.objs[u.returned].build_result
                              ELSE NoResult]
        /\ UNCHANGED <<variants, threads, entities, perm, clones, executed, asset_tree, next_asset_id, storage, issued>>

NextScenario ==
    \/ \E ctx \in ScenarioContexts, p \in ScenarioMkdirPaths, m \in ScenarioMkdirModes :
          MkdirCall(ctx, p, m)
    \/ \E ctx \in ScenarioContexts, p \in ScenarioStorePaths, m \in ScenarioStoreModes :
          StoreReadDirCall(ctx, p, m)
    \/ \E ctx \in ScenarioContexts, p \in ScenarioAcquirePaths, k \in ScenarioKwargs :
          AcquireUpdateCall(ctx, p, k)

SpecScenario == InitStore /\ [][NextScenario]_vars

\* the names a listing holds
NamesListed(result) ==
    IF result.kind = "Valid" /\ result.value.kind = "listing"
    THEN {result.value.contents[i].name : i \in DOMAIN result.value.contents}
    ELSE {}

\* scenario S1 is set up: 'tmp' is the directory root made with '1775', and
\* 'bin.ls' holds the ReadDir asset root stored with 0o754
ScenarioS1 ==
    /\ <<"tmp", "">> \in DOMAIN asset_tree
    /\ asset_tree[<<"tmp", "">>] =
           PermNode(UnixPermissions("root", "system", StrMode(<<1, 7, 7, 5>>)))
    /\ <<"bin", "ls">> \in DOMAIN asset_tree
    /\ asset_tree[<<"bin", "ls">>].kind = "id"
    /\ LET id == asset_tree[<<"bin", "ls">>].id
       IN  /\ id \in DOMAIN asset_by_id_cache
           /\ objs[asset_by_id_cache[id]].action = Action("ReadDir")
           /\ objs[asset_by_id_cache[id]].permissions =
                  UnixPermissions("root", "system", IntMode(492))

\* the call acquire(ctx(user), 'bin.ls').update(ctx(user), **kwargs) was made in S1
UpdatedLsBy(user, kwargs) ==
    /\ ScenarioS1
    /\ res.op = "acquire update"
    /\ res.user = user
    /\ res.path = BinLs
    /\ res.kwargs = kwargs

\* C25: in scenario S1, acquire(ctx(bob), 'bin.ls').update(ctx(bob), path='')
\* returns a Valid listing that contains bin and tmp, acquire(ctx(charly),
\* 'bin.ls') succeeds, and charly's update of it succeeds
C25_AsStated ==
    /\ UpdatedLsBy("bob", PathOverride) =>
           res.outcome = "asset" /\ {"bin", "tmp"} \subseteq NamesListed(res.result)
    /\ \A k \in ScenarioKwargs :
           UpdatedLsBy("charly", k) => res.outcome = "asset"
    /\ UpdatedLsBy("charly", EmptyDict) => res.result.kind = "Valid"

\* bob made the call of S1 on the store of S1
C25_Witness == UpdatedLsBy("bob", PathOverride)

----------------------------------------------------------------------------
(* Claims about acquire at the mount path of an ActiveAsset                *)

\* acquire(path) returned an asset, and path is exactly where an ActiveAsset
\* is mounted
AcquiredAtMount ==
    /\ res.op = "acquire"
    /\ res.outcome = "asset"
    /\ res.path.components \in DOMAIN asset_tree
    /\ asset_tree[res.path.components].kind = "active"

\* C26: acquire(path) where path is exactly the mount path of an ActiveAsset,
\* given as a dotted string or as a TreePath, returns the underlying stored
\* asset itself, not a clone, and its action_args hold no _inner_get key
C26_AsStated ==
    AcquiredAtMount =>
        /\ res.source # "clone"
        /\ objs[res.asset].local_id = asset_tree[res.path.components].id
        /\ "_inner_get" \notin DOMAIN objs[objs[res.asset].action_args].items

\* the mount path was acquired as a dotted string
C26_Witness == AcquiredAtMount /\ res.path.form = "str"

----------------------------------------------------------------------------
(* Claims about the asset acquire makes for a directory                    *)

\* the context of the caller recorded in res
Caller == CHOOSE c \in ScenarioContexts : c.user = res.user

\* acquire(path) found a directory at path and update() was called on what
\* it returned, by a caller who holds `r` on that directory
DirectoryUpdatedByReader ==
    /\ res.op = "acquire update"
    /\ res.source = "directory"
    /\ res.kwargs = EmptyDict
    /\ MayReadDirectory(entities, Caller,
                        GetNode(entities, Caller, asset_tree, res.path.components).permissions)

\* C27: acquire(path) on a path that resolves to a directory returns a
\* virtual asset bound to ReadDir for that path, and update() on that asset by
\* a user who holds `r` on the directory yields a Valid result holding the
\* listing of that directory
C27_AsStated ==
    DirectoryUpdatedByReader =>
        /\ res.bound_to = Action("ReadDir")
        /\ res.bound_args = [k \in {"path"} |-> PathStrValue(res.path.components)]
        /\ res.result =
               ValidResult(ListingValue(
                   ReadDirectory(entities, Caller, asset_tree,
                                 PathArg("TreePath", res.path.components))))

\* bob, who may read 'tmp', acquired it and called update()
C27_Witness ==
    /\ DirectoryUpdatedByReader
    /\ res.user = "bob"
    /\ res.path.components = <<"tmp">>

----------------------------------------------------------------------------
(* Claims about what update() leaves of the asset it is called on          *)

\* the asset's action_args or build_result differ after the step; set_result
\* sets last_build whenever it sets build_result
OriginalChanged(h) ==
    \/ objs'[h].build_result # objs[h].build_result
    \/ objs'[h].action_args # objs[h].action_args
    \/ objs'[objs'[h].action_args].items # objs[objs[h].action_args].items

\* the caller of the step's update() gave no overrides and holds `r` and `w`
\* on the asset
UpdatedInPlaceByRight ==
    /\ res'.kwargs = EmptyDict
    /\ ~PermissionsMissing(objs, res'.asset)
    /\ PermissionGranted(entities, Context(res'.user, None),
                         objs[res'.asset].permissions, "r")
    /\ PermissionGranted(entities, Context(res'.user, None),
                         objs[res'.asset].permissions, "w")

\* C28: with the basic strategy, update() changes the asset it is called on
\* only when it is called without overrides by a user who holds both `r` and
\* `w`; in every other case the original asset's action_args, build_result
\* and last_build are left unchanged
C28_AsStated ==
    [][res'.op = "update" /\ objs[res'.asset].updater = "basic"
           /\ OriginalChanged(res'.asset)
       => UpdatedInPlaceByRight]_vars

\* update() was refused for the lack of a right, and the asset it was called
\* on holds the error
C28_Witness ==
    /\ res.op = "update"
    /\ res.status = "PermissionError"
    /\ res.returned = res.asset
    /\ objs[res.asset].build_result = ErrorResult("PermissionError")

----------------------------------------------------------------------------
(* store and mkdir under a registry whose rights were revoked: the walk of *)
(* _set_node creates a missing directory when the caller holds `w`, and    *)
(* enters it when the caller holds `x`                                     *)

\* how many rights a behaviour revokes before the store is used
MaxRevocations == 3

\* the entities rights are revoked from, and the rights
RevokedNames == {"root", "system", "*"}
RevokedRights == {"w", "x"}

\* the rights revoked so far
Revoked(reg) ==
    {nr \in RevokedNames \X RevokedRights : ~HasRight(reg, nr[1], nr[2])}

\* registry.revoke_right(name, right), before the first call on the store
RevokeRightCall(name, right) ==
    /\ steps = 0
    /\ Cardinality(Revoked(entities)) < MaxRevocations
    /\ HasRight(entities, name, right)
    /\ entities' = SetCredential(entities, name, right, FALSE)
    /\ res' = [op |-> "revoke_right", name |-> name, right |-> right]
    /\ UNCHANGED notRegistryVars
    /\ UNCHANGED steps

\* the callers, paths and modes of the walks
WalkContexts == {Context("root", "system"), Context("alice", "developers")}
WalkPathArgs == {PathArg("str", <<"tmp">>), PathArg("str", <<"tmp", "a">>)}
WalkActions == {Action("TestAction")}
WalkModes == {NoMode}

NextWalk ==
    \/ \E n \in RevokedNames, r \in RevokedRights : RevokeRightCall(n, r)
    \/ \E ctx \in WalkContexts, a \in WalkActions, m \in WalkModes, p \in WalkPathArgs :
          StoreCall(ctx, a, p, m)
    \/ \E ctx \in WalkContexts, m \in WalkModes, p \in WalkPathArgs :
          MkdirCall(ctx, p, m)

SpecWalk == InitStore /\ [][NextWalk]_vars

\* the step was a store(asset, path) or a mkdir(path) that raised
\* PermissionError
RefusedWrite ==
    /\ res'.op \in {"store", "mkdir"}
    /\ res'.outcome = "PermissionError"

\* C29: if store(asset, path) or mkdir(path) raises PermissionError, the
\* directory tree is exactly as it was before the call: no intermediate
\* directory created during the walk remains in the tree
C29_AsStated == [][RefusedWrite => asset_tree' = asset_tree]_vars

\* every write so far was refused, and the tree holds a directory
C29_Witness ==
    /\ res.op \in {"store", "mkdir"}
    /\ res.outcome = "PermissionError"
    /\ steps = 1
    /\ <<"tmp">> \in DOMAIN asset_tree

----------------------------------------------------------------------------
(* Threads on two assets: update() of assets whose action calls an asset   *)
(*                                                                         *)
(* Two assets are stored at 'a' and 'b'.  The action of each is CallAsset  *)
(* with a _ref, or TestAction.  A thread calls store.query(context, path): *)
(* acquire, then update().  update() takes the RLock of the asset it is    *)
(* called on and holds it until it returns; CallAsset.execute acquires the *)
(* asset at _ref and calls its update() on the same thread.  Between the   *)
(* steps of a thread the other thread runs.                                *)

\* how many query() calls the threads make together
MaxQueries == 2

\* the depth of nested update() calls at which Python raises RecursionError
MaxDepth == 3

\* one update() a thread is in: the asset it was called on, where it stands
\* ("wait" before `with self._lock`, "locked" inside, "called" while the
\* update() its action called runs), the asset the action is executed on,
\* and what the called update() handed back
Frame(asset, pc, on, got) == [asset |-> asset, pc |-> pc, on |-> on, got |-> got]

\* an RLock: its owner and how often the owner has acquired it
FreeLock == [holder |-> "free", count |-> 0]

\* with self._lock, for thread t
AcquireLock(lock, t) == [holder |-> t, count |-> lock.count + 1]

\* the end of `with self._lock`
ReleaseLock(lock) ==
    IF lock.count = 1 THEN FreeLock ELSE [lock EXCEPT !.count = @ - 1]

\* Asset(CallAsset(), _ref=ref), or Asset(TestAction()) for no ref
HeapWithCaller(heap, ref) ==
    IF ref = "" THEN NewAsset(heap, Action("TestAction"), NoHandle, NoPermissions, -1)
    ELSE NewAssetWithArgs(heap, Action("CallAsset"),
                          [k \in {"_ref"} |-> PathStrValue(<<ref>>)])

\* the two assets, stored by root with mode 0o775 at 'a' and 'b'
HeapWithCallers(refs) ==
    LET h1 == HeapWithCaller(<<>>, refs[1])
        h2 == HeapWithCaller(h1, refs[2])
        p  == UnixPermissions("root", "system", IntMode(509))
    IN  [h2 EXCEPT ![Len(h1)].local_id = FirstId, ![Len(h1)].permissions = p,
                   ![Len(h2)].local_id = FirstId + 1, ![Len(h2)].permissions = p]
CallerA == Len(HeapWithCaller(<<>>, ""))
CallerB == Len(HeapWithCallers(<<"", "">>))

\* what the actions of the assets at 'a' and 'b' refer to: each other,
\* 'a' itself, or 'a' the asset at 'b' which calls nothing
CallerRefs == {<<"b", "a">>, <<"a", "">>, <<"b", "">>}

\* the callers: root, who holds `w` on the assets, and bob, who does not
LockContexts == {Context("root", "system"), Context("bob", "team")}

\* the paths queried
LockPathArgs == {PathArg("str", <<"a">>), PathArg("str", <<"b">>)}

\* the tree with both assets in it
TreeWithCallers ==
    LET root == Context("root", "system")
        t1   == SetNode(MakeUserRegistry, root, EmptyRoot, <<"a">>, IdValue(FirstId)).tree
    IN  SetNode(MakeUserRegistry, root, t1, <<"b">>, IdValue(FirstId + 1)).tree

InitLocks ==
    /\ entities = MakeUserRegistry
    /\ perm = DefaultRootPermissions
    /\ \E refs \in CallerRefs : objs = HeapWithCallers(refs)
    /\ asset_tree = TreeWithCallers
    /\ asset_by_id_cache = [id \in {FirstId, FirstId + 1} |->
                               IF id = FirstId THEN CallerA ELSE CallerB]
    /\ next_asset_id = FirstId + 2
    /\ storage = EmptyStorage
    /\ issued = <<FirstId, FirstId + 1>>
    /\ clones = <<>>
    /\ executed = <<>>
    /\ steps = 0
    /\ variants = <<>>
    /\ threads = [lock |-> [h \in {CallerA, CallerB} |-> FreeLock],
                  at |-> [t \in Threads |-> [ctx |-> Context(None, None), stack |-> <<>>]]]
    /\ res = [op |-> "init"]

\* the variables the threads on two assets leave alone
notLockVars == <<variants, entities, perm, asset_tree, next_asset_id, asset_by_id_cache,
                 storage, issued, clones, executed>>

\* the update() thread t is in innermost
TopFrame(t) == threads.at[t].stack[Len(threads.at[t].stack)]

\* update() returns result to its caller: the frame is left, and the
\* update() that called it, if any, holds what get_result() gives
ReturnFrom(stack, result) ==
    LET rest == SubSeq(stack, 1, Len(stack) - 1)
    IN  IF rest = <<>> THEN rest ELSE [rest EXCEPT ![Len(rest)].got = result]

\* the innermost update() of t returns result: its lock is released
LeaveUpdate(t, result) ==
    [lock |-> [threads.lock EXCEPT ![TopFrame(t).asset] = ReleaseLock(@)],
     at |-> [threads.at EXCEPT ![t].stack = ReturnFrom(@, result)]]

\* store.query(context, path) by a thread outside every call: acquire, and
\* the call of update() on the asset found
QueryCall(t, ctx, path) ==
    LET got == Acquire(entities, ctx, objs, asset_tree, asset_by_id_cache, storage, path)
    IN  /\ steps < MaxQueries
        /\ threads.at[t].stack = <<>>
        /\ got.outcome = "asset"
        /\ steps' = steps + 1
        /\ threads' = [threads EXCEPT !.at[t] =
                          [ctx |-> ctx, stack |-> <<Frame(got.asset, "wait", NoHandle, NoResult)>>]]
        /\ res' = [op |-> "query", thread |-> t, path |-> path]
        /\ UNCHANGED objs
        /\ UNCHANGED notLockVars

\* Asset.update: with self._lock
UpdateLock(t) ==
    /\ threads.at[t].stack # <<>>
    /\ TopFrame(t).pc = "wait"
    /\ threads.lock[TopFrame(t).asset].holder \in {"free", t}
    /\ threads' = [threads EXCEPT
                      !.lock[TopFrame(t).asset] = AcquireLock(@, t),
                      !.at[t].stack[Len(threads.at[t].stack)].pc = "locked"]
    /\ res' = [op |-> "update lock", thread |-> t]
    /\ UNCHANGED <<objs, steps>>
    /\ UNCHANGED notLockVars

\* the objects as execute_action finds them: the strategy has made the clone
\* it executes on, if it executes on one
BeforeExecute(heap, h, on) == IF on = h THEN heap ELSE Clone(heap, h)

\* Asset.update inside the lock: the strategy checks the rights and executes
\* the action.  TestAction returns; CallAsset.execute acquires the asset at
\* _ref and calls its update(), or raises RecursionError at the depth limit.
UpdateRun(t) ==
    /\ threads.at[t].stack # <<>>
    /\ TopFrame(t).pc = "locked"
    /\ \E u \in {AssetUpdate(entities, threads.at[t].ctx, objs, TopFrame(t).asset,
                             EmptyDict, TRUE)} :
         IF ~(u.ran /\ objs[TopFrame(t).asset].action = Action("CallAsset"))
         THEN /\ objs' = u.objs
              /\ threads' = LeaveUpdate(t, u.objs[u.returned].build_result)
         ELSE IF Len(threads.at[t].stack) >= MaxDepth
         THEN /\ objs' = [u.objs EXCEPT ![u.on].build_result = ErrorResult("RecursionError")]
              /\ threads' = LeaveUpdate(t, ErrorResult("RecursionError"))
         ELSE \E got \in {Acquire(entities, threads.at[t].ctx,
                                  BeforeExecute(objs, TopFrame(t).asset, u.on), asset_tree,
                                  asset_by_id_cache, storage,
                                  PathArg("str", u.args["_ref"].components))} :
              IF got.outcome # "asset"
              THEN /\ objs' = [u.objs EXCEPT ![u.on].build_result = ErrorResult("AttributeError")]
                   /\ threads' = LeaveUpdate(t, ErrorResult("AttributeError"))
              ELSE /\ objs' = got.objs
                   /\ threads' = [threads EXCEPT !.at[t].stack =
                                     Append([@ EXCEPT ![Len(@)].pc = "called", ![Len(@)].on = u.on],
                                            Frame(got.asset, "wait", NoHandle, NoResult))]
    /\ res' = [op |-> "update run", thread |-> t]
    /\ UNCHANGED steps
    /\ UNCHANGED notLockVars

\* the update() that CallAsset.execute called has returned: execute returns
\* its get_result(), execute_action sets it on the asset executed on, and
\* update() returns
UpdateResume(t) ==
    /\ threads.at[t].stack # <<>>
    /\ TopFrame(t).pc = "called"
    /\ objs' = [objs EXCEPT ![TopFrame(t).on].build_result = Captured(TopFrame(t).got)]
    /\ threads' = LeaveUpdate(t, Captured(TopFrame(t).got))
    /\ res' = [op |-> "update resume", thread |-> t]
    /\ UNCHANGED steps
    /\ UNCHANGED notLockVars

NextLocks ==
    \/ \E t \in Threads, ctx \in LockContexts, p \in LockPathArgs : QueryCall(t, ctx, p)
    \/ \E t \in Threads : UpdateLock(t)
    \/ \E t \in Threads : UpdateRun(t)
    \/ \E t \in Threads : UpdateResume(t)

SpecLocks == InitLocks /\ [][NextLocks]_vars

\* a thread that can take a step inside update() takes one: the threads
\* are scheduled by the operating system
ThreadStep(t) == UpdateLock(t) \/ UpdateRun(t) \/ UpdateResume(t)

SpecLocksFair == SpecLocks /\ \A t \in Threads : WF_vars(ThreadStep(t))

\* thread t is inside a query(): its update() has not returned
InUpdate(t) == threads.at[t].stack # <<>>

\* C30: concurrent update() calls never deadlock: every update() eventually
\* returns, both when the action re-enters the store and updates the same
\* asset on the same thread and when two threads update assets whose actions
\* each acquire and update the other asset
C30_AsStated == \A t \in Threads : InUpdate(t) ~> ~InUpdate(t)

\* thread t waits for the lock of an asset that the other thread holds
WaitsForOther(t) ==
    /\ InUpdate(t)
    /\ TopFrame(t).pc = "wait"
    /\ threads.lock[TopFrame(t).asset].holder \notin {"free", t}

\* each of the two threads holds the lock the other waits for
C30_Witness == \A t \in Threads : WaitsForOther(t)

====
